---- MODULE Spec2Model ----
(***************************************************************************)
(* Model of the NOAA species pipeline (lindaliu1/endangered-ocean):        *)
(* pipeline/scrape_noaa_details.py, the depth extractor and the threat     *)
(* normalizer, as driven by the scrape() loop.                             *)
(*                                                                         *)
(* Text is modelled as TLA+ strings, character by character.  The          *)
(* regular expressions of the source are modelled by a matcher (ReMatch /  *)
(* ReSearch) that returns the match a backtracking matcher finds first,    *)
(* over pattern descriptions that list the regex elements in the order,    *)
(* and with the alternation priority, of the source's pattern text.        *)
(***************************************************************************)
EXTENDS Integers, Sequences, FiniteSets, TLC

(***************************************************************************)
(* Characters and the str methods the source uses.                         *)
(***************************************************************************)
CharAt(s, i) == IF i >= 1 /\ i <= Len(s) THEN SubSeq(s, i, i) ELSE ""

UpperChars == "ABCDEFGHIJKLMNOPQRSTUVWXYZ"
LowerChars == "abcdefghijklmnopqrstuvwxyz"
DigitChars == "0123456789"

UpperSet == {CharAt(UpperChars, i) : i \in 1..Len(UpperChars)}
LowerSet == {CharAt(LowerChars, i) : i \in 1..Len(LowerChars)}
DigitSet == {CharAt(DigitChars, i) : i \in 1..Len(DigitChars)}

\* \s of the re module and the whitespace of str.split() and str.strip(), up to
\* U+00FF: space, \n, \t, \r, \f, then U+000B, U+001C, U+001D, U+001E, U+001F,
\* U+0085 and U+00A0 written as the characters themselves
SpaceSet == {" ", "\n", "\t", "\r", "\f", "", "", "", "", "", "", " "}
\* \w of the re module (ASCII part)
WordSet == UpperSet \cup LowerSet \cup DigitSet \cup {"_"}

IsSpace(c) == c \in SpaceSet
IsDigit(c) == c \in DigitSet
IsWordChar(c) == c \in WordSet

LowerTable == [c \in UpperSet |->
                 CharAt(LowerChars, CHOOSE i \in 1..Len(UpperChars) : CharAt(UpperChars, i) = c)]
LowerOf(c) == IF c \in UpperSet THEN LowerTable[c] ELSE c

\* The character-wise operators below split the text in halves, so that the depth
\* of the recursion grows with the logarithm of the length of the text.

\* str.lower()
RECURSIVE str_lower(_)
str_lower(s) ==
  IF Len(s) = 0 THEN ""
  ELSE IF Len(s) = 1 THEN LowerOf(s)
  ELSE LET h == Len(s) \div 2
       IN  str_lower(SubSeq(s, 1, h)) \o str_lower(SubSeq(s, h + 1, Len(s)))

\* index of the first non-whitespace character at or after i (Len(s)+1 if none)
RECURSIVE SkipSpace(_, _)
SkipSpace(s, i) == IF i <= Len(s) /\ IsSpace(CharAt(s, i)) THEN SkipSpace(s, i + 1) ELSE i

\* index of the first whitespace character at or after i (Len(s)+1 if none)
RECURSIVE SkipNonSpace(_, _)
SkipNonSpace(s, i) == IF i <= Len(s) /\ ~IsSpace(CharAt(s, i)) THEN SkipNonSpace(s, i + 1) ELSE i

\* index of the last non-whitespace character at or before i (0 if none)
RECURSIVE SkipSpaceBack(_, _)
SkipSpaceBack(s, i) == IF i >= 1 /\ IsSpace(CharAt(s, i)) THEN SkipSpaceBack(s, i - 1) ELSE i

\* str.strip()
str_strip(s) ==
  LET a == SkipSpace(s, 1)
      b == SkipSpaceBack(s, Len(s))
  IN  IF a > b THEN "" ELSE SubSeq(s, a, b)

\* the elements of a set of integers in increasing order
SortedSeq(S) ==
  [k \in 1..Cardinality(S) |-> CHOOSE i \in S : Cardinality({j \in S : j < i}) = k - 1]

\* str.split(): the maximal runs of non-whitespace characters
str_split(s) ==
  LET starts == SortedSeq({i \in 1..Len(s) : ~IsSpace(CharAt(s, i)) /\ (i = 1 \/ IsSpace(CharAt(s, i - 1)))})
  IN  [k \in 1..Len(starts) |-> SubSeq(s, starts[k], SkipNonSpace(s, starts[k]) - 1)]

\* sep.join(parts[lo..hi])
RECURSIVE JoinRange(_, _, _, _)
JoinRange(sep, parts, lo, hi) ==
  IF lo > hi THEN ""
  ELSE IF lo = hi THEN parts[lo]
  ELSE LET mid == (lo + hi) \div 2
       IN  JoinRange(sep, parts, lo, mid) \o sep \o JoinRange(sep, parts, mid + 1, hi)

\* sep.join(parts)
str_join(sep, parts) == JoinRange(sep, parts, 1, Len(parts))

\* needle in haystack (substring test)
Contains(haystack, needle) ==
  \E i \in 1..(Len(haystack) - Len(needle) + 1) :
     SubSeq(haystack, i, i + Len(needle) - 1) = needle

\* str.replace(",", "")
RECURSIVE StripCommas(_)
StripCommas(s) ==
  IF Len(s) = 0 THEN ""
  ELSE IF Len(s) = 1 THEN (IF s = "," THEN "" ELSE s)
  ELSE LET h == Len(s) \div 2
       IN  StripCommas(SubSeq(s, 1, h)) \o StripCommas(SubSeq(s, h + 1, Len(s)))

\* the value of one decimal digit character
DigitVal(c) == (CHOOSE i \in 1..Len(DigitChars) : CharAt(DigitChars, i) = c) - 1

\* float(digits): the digit strings the patterns capture are integers
RECURSIVE ParseDigits(_, _)
ParseDigits(s, acc) ==
  IF s = "" THEN acc ELSE ParseDigits(Tail(s), acc * 10 + DigitVal(Head(s)))

_normalize_space(s) == str_strip(str_join(" ", str_split(s)))

(***************************************************************************)
(* A backtracking matcher for the regular expressions of the source.       *)
(* A pattern is a sequence of elements, tried left to right; an            *)
(* alternation tries its branches in the order written, a repetition is    *)
(* greedy and gives back one character at a time, as Python's re does.     *)
(* The text handed to the matcher is lower-cased (re.IGNORECASE) and the   *)
(* literals of the patterns are lower-case.                                *)
(***************************************************************************)
B == [k |-> "b"]                                  \* \b
L(str) == [k |-> "lit", s |-> str]                \* literal text
Alt(subs) == [k |-> "alt", subs |-> subs]         \* (?:p1|p2|...)
Opt(sub) == Alt(<<sub, <<>>>>)                    \* (?:p)?
Ws0 == [k |-> "ws", min |-> 0]                    \* \s*
Ws1 == [k |-> "ws", min |-> 1]                    \* \s+
Dig(lo, hi) == [k |-> "dig", min |-> lo, max |-> hi]   \* \d{lo,hi}
CapS(name) == [k |-> "cs", name |-> name]         \* (?P<name>
CapE(name) == [k |-> "ce", name |-> name]         \* )

Min2(a, b) == IF a <= b THEN a ELSE b
Max2(a, b) == IF a >= b THEN a ELSE b

NoCaps == [n \in {"a", "b", "unit"} |-> <<0, 0>>]
ReFail == [ok |-> FALSE, start |-> 0, end |-> 0, caps |-> NoCaps]

RECURSIVE DigitRun(_, _, _)
DigitRun(s, i, max) ==
  IF max > 0 /\ IsDigit(CharAt(s, i)) THEN 1 + DigitRun(s, i + 1, max - 1) ELSE 0

\* The matcher keeps the list of the ways the pattern read so far can have
\* matched, each a position with its groups, in the order a backtracking matcher
\* tries them: a greedy repetition longest first, the branches of an alternation
\* left to right.  The head of the final list is the match the backtracking
\* matcher returns.
RECURSIVE ReRun(_, _, _, _, _), ReStepAll(_, _, _, _, _), ReStep(_, _, _), ReAlts(_, _, _, _, _)

\* the ways to match the elements lo .. hi of pat, continuing each way of cfgs:
\* the range is cut into six parts matched one after the other
ReRun(pat, lo, hi, s, cfgs) ==
  IF cfgs = <<>> \/ lo > hi THEN cfgs
  ELSE IF lo = hi THEN ReStepAll(pat[lo], s, cfgs, 1, Len(cfgs))
  ELSE LET w == (hi - lo + 6) \div 6
           c1 == ReRun(pat, lo, lo + w - 1, s, cfgs)
           c2 == ReRun(pat, lo + w, Min2(lo + 2 * w - 1, hi), s, c1)
           c3 == ReRun(pat, lo + 2 * w, Min2(lo + 3 * w - 1, hi), s, c2)
           c4 == ReRun(pat, lo + 3 * w, Min2(lo + 4 * w - 1, hi), s, c3)
           c5 == ReRun(pat, lo + 4 * w, Min2(lo + 5 * w - 1, hi), s, c4)
       IN  IF /\ c1 # <<>>
              /\ c2 # <<>>
              /\ c3 # <<>>
              /\ c4 # <<>>
              /\ c5 # <<>>
           THEN ReRun(pat, lo + 5 * w, hi, s, c5)
           ELSE <<>>

\* one element continuing the ways lo .. hi of cfgs, in order
ReStepAll(e, s, cfgs, lo, hi) ==
  IF lo = hi THEN ReStep(e, s, cfgs[lo])
  ELSE LET mid == (lo + hi) \div 2
       IN  ReStepAll(e, s, cfgs, lo, mid) \o ReStepAll(e, s, cfgs, mid + 1, hi)

\* one element continuing one way c (c.pos is the index of the next character)
ReStep(e, s, c) ==
  CASE e.k = "b" ->
         IF IsWordChar(CharAt(s, c.pos - 1)) # IsWordChar(CharAt(s, c.pos)) THEN <<c>> ELSE <<>>
    [] e.k = "lit" ->
         IF c.pos + Len(e.s) - 1 <= Len(s) /\ SubSeq(s, c.pos, c.pos + Len(e.s) - 1) = e.s
         THEN <<[c EXCEPT !.pos = c.pos + Len(e.s)]>> ELSE <<>>
    [] e.k = "alt" -> ReAlts(e.subs, s, c, 1, Len(e.subs))
    [] e.k = "ws" ->
         LET n == SkipSpace(s, c.pos) - c.pos
         IN  [k \in 1..(n - e.min + 1) |-> [c EXCEPT !.pos = c.pos + n - (k - 1)]]
    [] e.k = "dig" ->
         LET n == DigitRun(s, c.pos, e.max)
         IN  [k \in 1..(n - e.min + 1) |-> [c EXCEPT !.pos = c.pos + n - (k - 1)]]
    [] e.k = "cs" -> <<[c EXCEPT !.caps[e.name] = <<c.pos, c.pos>>]>>
    [] e.k = "ce" -> <<[c EXCEPT !.caps[e.name] = <<c.caps[e.name][1], c.pos>>]>>

\* the branches lo .. hi of an alternation continuing c, left to right
ReAlts(subs, s, c, lo, hi) ==
  IF lo = hi THEN ReRun(subs[lo], 1, Len(subs[lo]), s, <<c>>)
  ELSE LET mid == (lo + hi) \div 2
       IN  ReAlts(subs, s, c, lo, mid) \o ReAlts(subs, s, c, mid + 1, hi)

\* the match object of the ways r found from pos: the first way, if any
MatchOf(r, pos) ==
  IF r = <<>> THEN ReFail
  ELSE [ok |-> TRUE, start |-> pos, end |-> r[1].pos, caps |-> r[1].caps]

\* pattern.match(s, pos)
ReMatch(pat, s, pos) ==
  MatchOf(ReRun(pat, 1, Len(pat), s, <<[pos |-> pos, caps |-> NoCaps]>>), pos)

\* the match that starts leftmost
Leftmost(matches) ==
  LET found == {m \in matches : m.ok}
  IN  IF found = {} THEN ReFail
      ELSE CHOOSE m \in found : \A n \in found : m.start <= n.start

\* pattern.search(s), sl being s lower-cased (re.IGNORECASE): the match at the
\* leftmost position that has one
ReSearch(pat, sl) == Leftmost({ReMatch(pat, sl, p) : p \in 1..(Len(sl) + 1)})

\* match.group(name), taken from the text as written
Group(m, s, name) == SubSeq(s, m.caps[name][1], m.caps[name][2] - 1)

(***************************************************************************)
(* The explicit pattern matcher: _parse_explicit_depth_range_m.            *)
(* None is the empty sequence and a present value v is <<v>>.              *)
(***************************************************************************)
None == <<>>
Some(v) == <<v>>
IsNone(o) == o = <<>>

\* num = r"\d{1,4}(?:,\d{3})?" as the named group (?P<name>...)
NumPat(name) == <<CapS(name), Dig(1, 4), Opt(<<L(","), Dig(3, 3)>>), CapE(name)>>
\* unit = r"m|meters?|ft|feet" as the named group (?P<unit>...)
UnitPat == <<CapS("unit"),
             Alt(<< <<L("m")>>, <<L("meter"), Opt(<<L("s")>>)>>, <<L("ft")>>, <<L("feet")>> >>),
             CapE("unit")>>
\* depths?
DepthsPat == <<L("depth"), Opt(<<L("s")>>)>>

\* The patterns also accept an en dash (U+2013) wherever they accept "-".  A TLA+
\* string cannot hold that character, so that branch is left out; on the ASCII
\* texts of this model it can never match.
between_re ==
  <<B, Opt(<<L("at"), Ws1>> \o DepthsPat \o <<Ws1>>), Opt(DepthsPat \o <<Ws0>>),
    Alt(<< <<L("between")>>, <<L("from")>> >>), Ws1>>
  \o NumPat("a")
  \o <<Ws0, Alt(<< <<L("to")>>, <<L("and")>>, <<L("-")>> >>), Ws0>>
  \o NumPat("b") \o <<Ws0>> \o UnitPat \o <<B>>

range_re ==
  <<B, Opt(<<Alt(<< <<L("at"), Ws1>>, <<L("in"), Ws1>> >>)>>), Opt(<<L("water"), Ws1>>),
    Opt(DepthsPat \o <<Ws0, Opt(<<Alt(<< <<L("of")>>, <<L("ranging"), Ws1, L("from")>> >>)>>), Ws0>>)>>
  \o NumPat("a")
  \o <<Ws0, Alt(<< <<L("to")>>, <<L("-")>> >>), Ws0>>
  \o NumPat("b") \o <<Ws0>> \o UnitPat \o <<B>>

single_deep_re ==
  <<B, Opt(<<Alt(<< <<L("to"), Ws1, L("about"), Ws1>>, <<L("to"), Ws1>>, <<L("about"), Ws1>> >>)>>)>>
  \o NumPat("a") \o <<Ws0>> \o UnitPat
  \o <<Ws1, Alt(<< <<L("deep")>>, DepthsPat >>), B>>

lt_re ==
  <<B, Alt(<< <<L("<")>>, <<L("less"), Ws1, L("than")>> >>), Ws0>>
  \o NumPat("a") \o <<Ws0>> \o UnitPat
  \o <<B, Opt(<<Ws1, Alt(<< <<L("deep")>>, DepthsPat >>)>>)>>

as_deep_as_re ==
  <<B, L("as"), Ws1, L("deep"), Ws1, L("as"), Ws1>>
  \o NumPat("a") \o <<Ws0>> \o UnitPat \o <<B>>

depths_to_re ==
  <<B>> \o DepthsPat \o <<Ws1, L("to"), Ws1>>
  \o NumPat("a") \o <<Ws0>> \o UnitPat \o <<B>>

diving_to_re ==
  <<B, L("div"), Alt(<< <<L("e")>>, <<L("es")>>, <<L("ing")>> >>), Ws1, L("to"), Ws1>>
  \o NumPat("a")
  \o <<Ws0, Opt(<<Alt(<< <<L("-")>>, <<L(" ")>> >>)>>), Ws0>>
  \o UnitPat
  \o <<Ws1, Alt(<< DepthsPat, <<L("deep")>> >>), B>>

depth_context_re ==
  <<B, Alt(<< <<L("depth")>>, <<L("depths")>>, <<L("deep")>> >>), B>>
length_context_re ==
  <<B, Alt(<< <<L("length")>>, <<L("long")>>, <<L("in"), Ws1, L("length")>> >>), B>>

\* the order of the two loops over patterns
RangePatterns == <<between_re, range_re>>
SinglePatterns == <<single_deep_re, as_deep_as_re, depths_to_re, diving_to_re>>

\* The float the source computes, as the exact fraction whole + num/den.
\* 0.3048 is 381/1250; the split of value by 1250 keeps the products small.
\* For every value the num pattern can capture (0 .. 9,999,999) the IEEE double
\* product value * 0.3048 rounds to the same integer as this exact fraction.
FtNum == 381
FtDen == 1250
Exact(value) == [whole |-> value, num |-> 0, den |-> 1]
FeetToMeters(value) ==
  LET p == FtNum * (value % FtDen)
  IN  [whole |-> FtNum * (value \div FtDen) + (p \div FtDen), num |-> p % FtDen, den |-> FtDen]

_to_meters(value, unit) ==
  LET unit_l == str_lower(unit)
  IN  IF unit_l \in {"m", "meter", "meters"} THEN Exact(value)
      ELSE IF unit_l \in {"ft", "feet"} THEN FeetToMeters(value)
      ELSE Exact(value)

\* a rounding that takes a half up
PyRound_half_up(f) == IF 2 * f.num >= f.den THEN f.whole + 1 ELSE f.whole

\* int(round(x)): Python 3 rounds a half to the even neighbour
PyRound(f) ==
  IF 2 * f.num > f.den THEN f.whole + 1
  ELSE IF 2 * f.num = f.den THEN (IF f.whole % 2 = 0 THEN f.whole ELSE f.whole + 1)
  ELSE f.whole

\* a number read only up to its thousands comma
NumberOf_to_comma(m, s, name) ==
  LET g == Group(m, s, name)
      commas == {i \in 1..Len(g) : CharAt(g, i) = ","}
  IN  IF commas = {} THEN ParseDigits(g, 0)
      ELSE ParseDigits(SubSeq(g, 1, (CHOOSE i \in commas : \A j \in commas : i <= j) - 1), 0)

\* float(match.group(name).replace(",", ""))
NumberOf(m, s, name) == ParseDigits(StripCommas(Group(m, s, name)), 0)

\* re.split(r"(?<=[.!?])\s+", text): cut at each whitespace run that follows . ! or ?
SplitAfterStops(text) ==
  LET cuts == SortedSeq({i \in 2..Len(text) :
                           IsSpace(CharAt(text, i)) /\ CharAt(text, i - 1) \in {".", "!", "?"}})
      n == Len(cuts)
  IN  [k \in 1..(n + 1) |->
         SubSeq(text,
                IF k = 1 THEN 1 ELSE SkipSpace(text, cuts[k - 1]),
                IF k = n + 1 THEN Len(text) ELSE cuts[k] - 1)]

\* re.sub(r"\s+", " ", text) on text[lo..hi]: the first character of a whitespace
\* run becomes one space, the rest of the run nothing
RECURSIVE CollapseRange(_, _, _)
CollapseRange(text, lo, hi) ==
  IF lo > hi THEN ""
  ELSE IF lo = hi
       THEN (IF ~IsSpace(CharAt(text, lo)) THEN CharAt(text, lo)
             ELSE IF IsSpace(CharAt(text, lo - 1)) THEN "" ELSE " ")
  ELSE LET mid == (lo + hi) \div 2
       IN  CollapseRange(text, lo, mid) \o CollapseRange(text, mid + 1, hi)

CollapseSpace(text) == CollapseRange(text, 1, Len(text))

NonEmpty(s) == s # ""

\* [str.strip() for str in parts if str.strip()]
StripAndDropEmpty(parts) == SelectSeq([k \in 1..Len(parts) |-> str_strip(parts[k])], NonEmpty)

split_sentences(text0) ==
  LET text == str_strip(CollapseSpace(text0))
  IN  IF text = "" THEN <<>> ELSE StripAndDropEmpty(SplitAfterStops(text))

\* the first pattern of pats, from index i, that matches sl, with its match;
\* index 0 if none matches
RECURSIVE FirstMatch(_, _, _), MatchOrNext(_, _, _, _)
FirstMatch(pats, sl, i) ==
  IF i > Len(pats) THEN [idx |-> 0, m |-> ReFail]
  ELSE MatchOrNext(ReSearch(pats[i], sl), pats, sl, i)

\* if match: ... return; otherwise the loop goes on to the next pattern
MatchOrNext(m, pats, sl, i) ==
  IF m.ok THEN [idx |-> i, m |-> m] ELSE FirstMatch(pats, sl, i + 1)

\* a result that reports the depth 0 where nothing was found
NoDepth_zero == [min |-> <<0>>, max |-> <<0>>]

NoDepth == [min |-> None, max |-> None]

\* a range match that keeps the two numbers in the order written
RangeResult_as_written(m, s) ==
  LET unit == Group(m, s, "unit")
  IN  [min |-> Some(PyRound(_to_meters(NumberOf(m, s, "a"), unit))),
       max |-> Some(PyRound(_to_meters(NumberOf(m, s, "b"), unit)))]

\* lines 179-187: a range match
RangeResult(m, s) ==
  LET num1 == NumberOf(m, s, "a")
      num2 == NumberOf(m, s, "b")
      unit == Group(m, s, "unit")
      explicit_min == _to_meters(Min2(num1, num2), unit)
      explicit_max == _to_meters(Max2(num1, num2), unit)
  IN  [min |-> Some(PyRound(explicit_min)), max |-> Some(PyRound(explicit_max))]

\* lines 189-196: a single-value match
SingleResult(m, s) ==
  LET val == PyRound(_to_meters(NumberOf(m, s, "a"), Group(m, s, "unit")))
  IN  [min |-> Some(val), max |-> Some(val)]

\* a less-than match that leaves the lower bound open
LessThanResult_open_below(m, s) ==
  LET val == PyRound(_to_meters(NumberOf(m, s, "a"), Group(m, s, "unit")))
  IN  [min |-> None, max |-> Some(val)]

\* lines 198-204: a less-than match
LessThanResult(m, s) ==
  LET val == PyRound(_to_meters(NumberOf(m, s, "a"), Group(m, s, "unit")))
  IN  [min |-> Some(0), max |-> Some(val)]

\* one step of the loop body on sentence s: kind "nomatch" when found.idx is 0
Step(kind, found, s) ==
  [kind |-> IF found.idx # 0 THEN kind ELSE "nomatch", idx |-> found.idx, m |-> found.m, s |-> s]
\* match = lt_re.search(s), in the form FirstMatch gives
OneMatch(m) == [idx |-> IF m.ok THEN 1 ELSE 0, m |-> m]
\* the step that returns: the earlier one if it matched, else the later one
FirstStep(earlier, later) == IF earlier.kind # "nomatch" THEN earlier ELSE later
Skipped(kind, s) == [kind |-> kind, idx |-> 0, m |-> ReFail, s |-> s]

\* a loop body that tries the single-value patterns before the range patterns
LoopBody_single_first(s, sl) ==
  IF ~ReSearch(depth_context_re, sl).ok THEN Skipped("nocontext", s)
  ELSE IF ReSearch(length_context_re, sl).ok THEN Skipped("length", s)
  ELSE FirstStep(Step("single", FirstMatch(SinglePatterns, sl, 1), s),
                 FirstStep(Step("range", FirstMatch(RangePatterns, sl, 1), s),
                           Step("lt", OneMatch(ReSearch(lt_re, sl)), s)))

\* a loop body without the body-length filter
LoopBody_no_length_filter(s, sl) ==
  IF ~ReSearch(depth_context_re, sl).ok THEN Skipped("nocontext", s)
  ELSE FirstStep(Step("range", FirstMatch(RangePatterns, sl, 1), s),
                 FirstStep(Step("single", FirstMatch(SinglePatterns, sl, 1), s),
                           Step("lt", OneMatch(ReSearch(lt_re, sl)), s)))

\* a loop body without the depth-context filter
LoopBody_no_depth_filter(s, sl) ==
  IF ReSearch(length_context_re, sl).ok THEN Skipped("length", s)
  ELSE FirstStep(Step("range", FirstMatch(RangePatterns, sl, 1), s),
                 FirstStep(Step("single", FirstMatch(SinglePatterns, sl, 1), s),
                           Step("lt", OneMatch(ReSearch(lt_re, sl)), s)))

\* lines 174-204, s being the normalized sentence and sl its lower case: which step
\* of the loop body decides the sentence ("nocontext", "length", "range", "single",
\* "lt" or "nomatch"), with the pattern index and the match
LoopBody(s, sl) ==
  IF ~ReSearch(depth_context_re, sl).ok THEN Skipped("nocontext", s)
  ELSE IF ReSearch(length_context_re, sl).ok THEN Skipped("length", s)
  ELSE FirstStep(Step("range", FirstMatch(RangePatterns, sl, 1), s),
                 FirstStep(Step("single", FirstMatch(SinglePatterns, sl, 1), s),
                           Step("lt", OneMatch(ReSearch(lt_re, sl)), s)))

\* lines 173-204: the loop body on one sentence
SentenceMatch(sent) == LoopBody(_normalize_space(sent), str_lower(_normalize_space(sent)))

SentenceResult(sm) ==
  CASE sm.kind = "range" -> RangeResult(sm.m, sm.s)
    [] sm.kind = "single" -> SingleResult(sm.m, sm.s)
    [] sm.kind = "lt" -> LessThanResult(sm.m, sm.s)
    [] OTHER -> NoDepth

NoSentence == [kind |-> "none", idx |-> 0, m |-> ReFail, s |-> ""]

\* the for loop over the sentences: the step of the first sentence that returns
\* a scan in which the last sentence that matches decides
ScanSentences_last(sentences, i) ==
  LET hits == {k \in i..Len(sentences) :
                 SentenceMatch(sentences[k]).kind \in {"range", "single", "lt"}}
  IN  IF hits = {} THEN NoSentence
      ELSE SentenceMatch(sentences[CHOOSE k \in hits : \A j \in hits : j <= k])

RECURSIVE ScanSentences(_, _), StepOrNext(_, _, _)
ScanSentences(sentences, i) ==
  IF i > Len(sentences) THEN NoSentence
  ELSE StepOrNext(SentenceMatch(sentences[i]), sentences, i)

\* a step that matched returns; otherwise the loop goes on to the next sentence
StepOrNext(sm, sentences, i) ==
  IF sm.kind \in {"range", "single", "lt"} THEN sm ELSE ScanSentences(sentences, i + 1)

_parse_explicit_depth_range_m(depth_notes) ==
  IF depth_notes = "" THEN NoDepth
  ELSE LET sentences == split_sentences(depth_notes)
       IN  IF sentences = <<>> THEN NoDepth ELSE SentenceResult(ScanSentences(sentences, 1))

(***************************************************************************)
(* The bucket inferencer, the depth extractor and the source tagger.       *)
(***************************************************************************)
deep_keywords ==
  <<"deep sea", "deepwater", "deep-water", "offshore", "oceanic", "pelagic", "upper slope",
    "continental slope", "abyss", "bathyal", "over deep water", "deeper waters", "deeper than">>
shelf_keywords ==
  <<"continental shelf", "shelf waters", "shelf break", "outer shelf", "over the continental shelf">>
shallow_keywords ==
  <<"intertidal", "subtidal", "shallow", "nearshore", "inshore", "coastal", "reef", "lagoons",
    "lagoon", "estuaries", "estuary", "river mouth", "seagrass", "mangrove", "bays", "bay">>

\* any(word in text for word in keywords)
AnyKeywordIn(keywords, text) == \E i \in 1..Len(keywords) : Contains(text, keywords[i])

NoBucket == [min |-> None, max |-> None, bucket |-> ""]

\* an inferencer that asks the shallow keywords first
_infer_depth_bucket_range_m_shallow_first(depth_notes) ==
  IF depth_notes = "" THEN NoBucket
  ELSE LET text == str_lower(_normalize_space(depth_notes))
       IN  IF AnyKeywordIn(shallow_keywords, text)
             THEN [min |-> Some(0), max |-> Some(20), bucket |-> "shallow"]
           ELSE IF AnyKeywordIn(shelf_keywords, text)
             THEN [min |-> Some(20), max |-> Some(200), bucket |-> "continental_shelf"]
           ELSE IF AnyKeywordIn(deep_keywords, text)
             THEN [min |-> Some(200), max |-> Some(1000), bucket |-> "deep"]
           ELSE NoBucket

_infer_depth_bucket_range_m(depth_notes) ==
  IF depth_notes = "" THEN NoBucket
  ELSE LET text == str_lower(_normalize_space(depth_notes))
       IN  IF AnyKeywordIn(deep_keywords, text)
             THEN [min |-> Some(200), max |-> Some(1000), bucket |-> "deep"]
           ELSE IF AnyKeywordIn(shelf_keywords, text)
             THEN [min |-> Some(20), max |-> Some(200), bucket |-> "continental_shelf"]
           ELSE IF AnyKeywordIn(shallow_keywords, text)
             THEN [min |-> Some(0), max |-> Some(20), bucket |-> "shallow"]
           ELSE NoBucket

\* an extractor that asks the bucket keywords first
extract_depth_range_bucket_first(depth_notes) ==
  LET inferred == _infer_depth_bucket_range_m(depth_notes)
  IN  IF inferred.bucket # "" THEN [min |-> inferred.min, max |-> inferred.max]
      ELSE _parse_explicit_depth_range_m(depth_notes)

extract_depth_range(depth_notes) ==
  LET explicit == _parse_explicit_depth_range_m(depth_notes)
  IN  IF ~IsNone(explicit.min) \/ ~IsNone(explicit.max) THEN explicit
      ELSE LET inferred == _infer_depth_bucket_range_m(depth_notes)
           IN  [min |-> inferred.min, max |-> inferred.max]

\* a tag that names the bucket without the "bucket:" prefix
define_depth_source_bare(depth_notes, min_depth_m, max_depth_m) ==
  IF IsNone(min_depth_m) /\ IsNone(max_depth_m) THEN "unknown"
  ELSE LET explicit == _parse_explicit_depth_range_m(depth_notes)
       IN  IF ~IsNone(explicit.min) \/ ~IsNone(explicit.max) THEN "explicit"
           ELSE _infer_depth_bucket_range_m(depth_notes).bucket

define_depth_source(depth_notes, min_depth_m, max_depth_m) ==
  IF IsNone(min_depth_m) /\ IsNone(max_depth_m) THEN "unknown"
  ELSE LET explicit == _parse_explicit_depth_range_m(depth_notes)
       IN  IF ~IsNone(explicit.min) \/ ~IsNone(explicit.max) THEN "explicit"
           ELSE LET inferred == _infer_depth_bucket_range_m(depth_notes)
                IN  IF inferred.bucket # "" /\ (~IsNone(inferred.min) \/ ~IsNone(inferred.max))
                    THEN "bucket:" \o inferred.bucket
                    ELSE "unknown"

(***************************************************************************)
(* The threat normalizer.                                                  *)
(***************************************************************************)
cc_keywords ==
  <<"climate change", "ocean acidification", "ocean warming", "sea level rise", "temperatures">>
disease_keywords == <<"disease", "diseases">>
fishing_keywords ==
  <<"fishing", "bycatch", "overfishing", "fisheries", "entanglement", "vessel", "vessel-based",
    "harvest", "overharvest">>
habitat_keywords == <<"habitat", "habitats", "dredging", "habitat">>
pollution_keywords ==
  <<"oil", "spill", "gas", "pollution", "pollutants", "contaminants", "toxic", "toxins", "debris">>
predation_keywords == <<"predation", "predators", "harassment">>
population_keywords == <<"population">>

\* a chain that asks for habitat loss before fishing
CategoryChain_habitat_first ==
  << [label |-> "climate change", keywords |-> cc_keywords],
     [label |-> "disease", keywords |-> disease_keywords],
     [label |-> "habitat loss", keywords |-> habitat_keywords],
     [label |-> "fishing", keywords |-> fishing_keywords],
     [label |-> "pollution", keywords |-> pollution_keywords],
     [label |-> "predation", keywords |-> predation_keywords],
     [label |-> "low population", keywords |-> population_keywords] >>

\* the if / elif chain of the loop body, top to bottom
CategoryChain ==
  << [label |-> "climate change", keywords |-> cc_keywords],
     [label |-> "disease", keywords |-> disease_keywords],
     [label |-> "fishing", keywords |-> fishing_keywords],
     [label |-> "habitat loss", keywords |-> habitat_keywords],
     [label |-> "pollution", keywords |-> pollution_keywords],
     [label |-> "predation", keywords |-> predation_keywords],
     [label |-> "low population", keywords |-> population_keywords] >>

\* a chain of independent ifs: every category with a keyword in the phrase
RECURSIVE ChainFrom_every(_, _)
ChainFrom_every(threat_lower, i) ==
  IF i > Len(CategoryChain) THEN <<>>
  ELSE (IF AnyKeywordIn(CategoryChain[i].keywords, threat_lower) THEN <<CategoryChain[i].label>> ELSE <<>>)
       \o ChainFrom_every(threat_lower, i + 1)

\* the labels one phrase adds to seen: the branch of the chain that is taken
RECURSIVE ChainFrom(_, _)
ChainFrom(threat_lower, i) ==
  IF i > Len(CategoryChain) THEN <<>>
  ELSE IF AnyKeywordIn(CategoryChain[i].keywords, threat_lower) THEN <<CategoryChain[i].label>>
  ELSE ChainFrom(threat_lower, i + 1)

ClassifyThreat(threat) == ChainFrom(str_lower(threat), 1)

(***************************************************************************)
(* The set seen of normalize_threats.  The list the function returns is    *)
(* the iteration order of a CPython set of str, which is the slot order of *)
(* its hash table and so depends on the string hashes of the interpreter   *)
(* process (PYTHONHASHSEED; a random seed per process by default).         *)
(* A table is a sequence of slots, "" for an unused slot; slot i of        *)
(* CPython is element i + 1.                                               *)
(***************************************************************************)
\* The interpreter processes of the model: PYTHONHASHSEED = 1, 12, 39 and 51.  The
\* seed is drawn at random for each process.  Under 39 and 51 together a set of two
\* of the seven labels comes back in each of its two orders, for either order of
\* insertion; with 1 and 12 the two sets of the pages of ListPages come back in each
\* of the four combinations of their orders.
HashSeeds == {1, 12, 39, 51}

\* hash(label) of CPython 3.11 (siphash13) under each seed, its low 30 bits.  For
\* these seeds the low 30 bits give the probe sequence of the full hash for every
\* insertion order of the seven labels.
StrHash(seed, label) ==
  IF seed = 1
  THEN CASE label = "climate change" -> 55335255
         [] label = "disease" -> 464096947
         [] label = "fishing" -> 448688288
         [] label = "habitat loss" -> 365886120
         [] label = "pollution" -> 204251341
         [] label = "predation" -> 290465638
         [] label = "low population" -> 164760636
  ELSE IF seed = 12
  THEN CASE label = "climate change" -> 349292348
         [] label = "disease" -> 909581951
         [] label = "fishing" -> 933112061
         [] label = "habitat loss" -> 1051539328
         [] label = "pollution" -> 9435823
         [] label = "predation" -> 91097807
         [] label = "low population" -> 754380497
  ELSE IF seed = 39
  THEN CASE label = "climate change" -> 773031441
         [] label = "disease" -> 124019539
         [] label = "fishing" -> 260984554
         [] label = "habitat loss" -> 495716501
         [] label = "pollution" -> 292478953
         [] label = "predation" -> 72780177
         [] label = "low population" -> 305095644
  ELSE CASE label = "climate change" -> 997492782
         [] label = "disease" -> 516578875
         [] label = "fishing" -> 466032829
         [] label = "habitat loss" -> 704086434
         [] label = "pollution" -> 599752262
         [] label = "predation" -> 41889766
         [] label = "low population" -> 640485258

\* a table of n unused slots, n a power of two
RECURSIVE EmptyTable(_)
EmptyTable(n) == IF n = 1 THEN <<"">> ELSE EmptyTable(n \div 2) \o EmptyTable(n \div 2)
Used(table) == Cardinality({i \in 1..Len(table) : table[i] # ""})

\* the slot, among i .. i + probes, that is unused or (when check) holds key; -1 if none
RECURSIVE LinearProbe(_, _, _, _, _)
LinearProbe(table, key, i, probes, check) ==
  IF table[i + 1] = "" \/ (check /\ table[i + 1] = key) THEN i
  ELSE IF probes = 0 THEN -1
  ELSE LinearProbe(table, key, i + 1, probes - 1, check)

\* the probe loop of set_add_entry (check) and set_insert_clean (no check)
RECURSIVE SetProbe(_, _, _, _, _)
SetProbe(table, key, i, perturb, check) ==
  LET mask == Len(table) - 1
      \* LINEAR_PROBES is 9 and PERTURB_SHIFT is 5 in CPython's setobject.c
      probes == IF i + 9 <= mask THEN 9 ELSE 0
      j == LinearProbe(table, key, i, probes, check)
      p == perturb \div 32
  IN  IF j >= 0 THEN [table EXCEPT ![j + 1] = key]
      ELSE SetProbe(table, key, (i * 5 + 1 + p) % Len(table), p, check)

SetInsert(table, key, hash, check) == SetProbe(table, key, hash % Len(table), hash, check)

RECURSIVE GrowSize(_, _)
GrowSize(n, minused) == IF n <= minused THEN GrowSize(2 * n, minused) ELSE n

\* set_table_resize: the entries are re-inserted in slot order
RECURSIVE Reinsert(_, _, _, _)
Reinsert(old, i, new, seed) ==
  IF i > Len(old) THEN new
  ELSE IF old[i] = "" THEN Reinsert(old, i + 1, new, seed)
  ELSE Reinsert(old, i + 1, SetInsert(new, old[i], StrHash(seed, old[i]), FALSE), seed)

\* an add that does not look for the key in the table
set_add_unchecked(table, key, seed) ==
  LET t == SetInsert(table, key, StrHash(seed, key), FALSE)
  IN  IF Used(t) * 5 < (Len(t) - 1) * 3 THEN t
      ELSE Reinsert(t, 1, EmptyTable(GrowSize(8, Used(t) * 4)), seed)

\* seen.add(key)
set_add(table, key, seed) ==
  LET t == SetInsert(table, key, StrHash(seed, key), TRUE)
  IN  IF t = table THEN table
      ELSE IF Used(t) * 5 < (Len(t) - 1) * 3 THEN t
      ELSE Reinsert(t, 1, EmptyTable(GrowSize(8, Used(t) * 4)), seed)

\* for n_threat in seen: the used slots in slot order
RECURSIVE set_iter(_, _)
set_iter(table, i) ==
  IF i > Len(table) THEN <<>>
  ELSE (IF table[i] = "" THEN <<>> ELSE <<table[i]>>) \o set_iter(table, i + 1)

Range(seq) == {seq[i] : i \in 1..Len(seq)}

(***************************************************************************)
(* The inputs: the pages of the species list.  A page stands for the       *)
(* detail page of one species, reduced to what extract_depth_notes and     *)
(* extract_threats hand to the core: the narrative text and the list of    *)
(* raw threat phrases.                                                     *)
(***************************************************************************)
MaxSentences == 2
MaxPhrases == 2
MaxItems == 3

\* Pieces of narrative.  A piece that does not end in . ! or ? runs on into the
\* piece that follows it and forms one sentence with it.  The pieces of a narrative
\* form one paragraph, whitespace-normalized as extract_depth_notes leaves it; a
\* blank line separates two paragraphs, as extract_depth_notes joins them.
SentencePool ==
  { "They are found at depths between 100 and 200 feet.",
    "They occur at depths from 1,875 to 625 ft.",
    "In water depths of 10-20 meters",
    "They dive to about 625 FT deep.",
    "They dive as deep as 640 feet",
    "Found in depths to 1,082 Meters!",
    "Whales are diving to 1,000-meter depths.",
    "Seen at depths less than 20 m.",
    "Seen at depths < 30 ft.",
    "Usually less than 20 m deep.",
    "Adults grow to 12 feet in length and dive to 426 feet.",
    "It is 3 m long",
    "Adults are 10 feet long and dive 625 ft deep.",
    "Dives range from 100 to 200 feet.",
    "They dive as deep as 640 feet but stay 20 m deep.",
    "This species lives in the deep sea and rarely surfaces.",
    "They prefer coastal reef habitat.",
    "Common over the continental shelf.",
    "Nothing is known.\n\nIt is rare." }

\* the pieces that follow the first piece of a narrative
FollowPool ==
  { "They are found at depths between 100 and 200 feet.",
    "This species lives in the deep sea and rarely surfaces.",
    "They prefer coastal reef habitat." }

\* narratives of n pieces
RECURSIVE NarrativesOf(_)
NarrativesOf(n) ==
  IF n = 0 THEN {""}
  ELSE IF n = 1 THEN SentencePool
  ELSE {a \o " " \o b : a \in NarrativesOf(n - 1), b \in FollowPool}

Narratives == UNION {NarrativesOf(n) : n \in 0..MaxSentences}

PhrasePool ==
  { "Bycatch in commercial fisheries",
    "Ocean warming and acidification",
    "Unknown causes",
    "Habitat loss from fishing gear",
    "Small population size and disease",
    "Oil spills and predators",
    "Climate change and habitat degradation",
    "HARASSMENT",
    "Population decline" }

RECURSIVE SeqsOf(_, _)
SeqsOf(S, n) ==
  IF n = 0 THEN {<<>>}
  ELSE {Append(q, e) : q \in SeqsOf(S, n - 1), e \in S}

\* extract_threats drops the phrases it has already seen: no phrase occurs twice
NoRepeat(q) == \A i, j \in 1..Len(q) : q[i] = q[j] => i = j
ThreatLists == UNION {{q \in SeqsOf(PhrasePool, n) : NoRepeat(q)} : n \in 0..MaxPhrases}

Page(notes, phrases) == [depth_notes |-> notes, threats |-> phrases]

\* pages for the depth extractor, pages for the threat normalizer, and whole pages
Pages ==
  {Page(n, <<>>) : n \in Narratives}
  \cup {Page("", l) : l \in ThreatLists}
  \cup {Page("They are found at depths between 100 and 200 feet.",
             <<"Bycatch in commercial fisheries", "Ocean warming and acidification", "Unknown causes">>)}

\* the pages of the longer species lists: a page without a narrative section, and
\* a page with one
ListPages ==
  { Page("",
         <<"Bycatch in commercial fisheries", "Ocean warming and acidification", "Unknown causes">>),
    Page("It is 3 m long",
         <<"Population decline", "Small population size and disease">>) }

\* the species lists read from IN_PATH
InputLists ==
  {<<p>> : p \in Pages} \cup UNION {SeqsOf(ListPages, n) : n \in 2..MaxItems}

(***************************************************************************)
(* The state: one interpreter process running scrape().                    *)
(***************************************************************************)
VARIABLES
  list_items,          \* the species list read from IN_PATH
  hashseed,            \* the string hash seed of this interpreter process
  pc,                  \* the statement of the loop body to run next
  idx,                 \* the position of the for loop in list_items
  depth_notes,         \* locals of the loop body
  min_depth_m,
  max_depth_m,
  depth_source,
  threats,
  normalized_threats,
  seen,                \* the set of the last call of normalize_threats
  results,             \* the list scrape() builds
  run,                 \* how many times scrape() has been started on list_items
  prev_seed,           \* the hash seed and the results of the previous run
  prev_results,
  explicit_calls,      \* calls of _parse_explicit_depth_range_m for the current species
  bucket_calls         \* calls of _infer_depth_bucket_range_m for the current species

vars == <<list_items, hashseed, pc, idx, depth_notes, min_depth_m, max_depth_m, depth_source,
          threats, normalized_threats, seen, results, run, prev_seed, prev_results,
          explicit_calls, bucket_calls>>

(***************************************************************************)
(* The state of the two other programs of the pipeline: run_pipeline.main, *)
(* which starts the steps as subprocesses, and backend.load_to_db.main,    *)
(* which loads the records into the database.  Each program has its own    *)
(* specification; while one runs, the state of the others stays idle.      *)
(***************************************************************************)
VARIABLES
  args,                \* run_pipeline: the parsed command line
  environ,             \* run_pipeline: whether DATABASE_URL is set and not empty
  main_pc,             \* run_pipeline: the statement of main to run next
  running,             \* run_pipeline: the step whose subprocess is running, or ""
  started,             \* run_pipeline: the steps started so far, in order
  exits,               \* run_pipeline: the exit codes of the steps that have ended
  url_checked,         \* run_pipeline: whether line 61 has been evaluated
  main_result          \* run_pipeline: how main ended

pipe_vars == <<args, environ, main_pc, running, started, exits, url_checked, main_result>>

NoResult == [kind |-> "none", code |-> 0]

\* run_pipeline.main has not been started
PipeIdle ==
  /\ args = [skip_list |-> FALSE, skip_details |-> FALSE, load |-> FALSE]
  /\ environ = FALSE
  /\ main_pc = "idle"
  /\ running = ""
  /\ started = <<>>
  /\ exits = <<>>
  /\ url_checked = FALSE
  /\ main_result = NoResult

VARIABLES
  rows,                \* load_to_db: the records of the input file
  db,                  \* the committed tables species, threat, species_threat
  seqs,                \* the last values of the two id sequences
  conn,                \* load_to_db: the connection: "none", "open" or "closed"
  tx,                  \* the tables as the open transaction sees them
  load_pc,             \* load_to_db: the statement of main to run next
  row_i,               \* load_to_db: the position of the for loop in rows
  s_id,                \* load_to_db: the id upsert_species returned
  species_count,       \* load_to_db: locals of main
  link_count,
  load_result,         \* load_to_db: how main ended: "none", "ok" or "raised"
  loads,               \* how many times main has been started on rows
  db_at_start,         \* the committed tables when main was started
  replaced,            \* the last call of replace_species_threats and its result
  db_after_first       \* the committed tables after the first load that ended "ok"

load_vars == <<rows, db, seqs, conn, tx, load_pc, row_i, s_id, species_count, link_count,
               load_result, loads, db_at_start, replaced, db_after_first>>

EmptyTables == [species |-> {}, threat |-> {}, species_threat |-> {}]
NoReplace == [species_id |-> 0, names |-> <<>>, before |-> EmptyTables, inserted |-> 0]

\* load_to_db.main has not been started
LoadIdle ==
  /\ rows = <<>>
  /\ db = EmptyTables
  /\ seqs = [species |-> 0, threat |-> 0]
  /\ conn = "none"
  /\ tx = EmptyTables
  /\ load_pc = "idle"
  /\ row_i = 1
  /\ s_id = 0
  /\ species_count = 0
  /\ link_count = 0
  /\ load_result = "none"
  /\ loads = 1
  /\ db_at_start = EmptyTables
  /\ replaced = NoReplace
  /\ db_after_first = None

MaxRuns == 2

\* a set that is kept from one call of normalize_threats to the next
kept_set == seen

\* seen = set()
new_set == EmptyTable(8)

\* seen.add(label) for each label of labels, in order
RECURSIVE AddLabels(_, _, _, _)
AddLabels(table, labels, i, seed) ==
  IF i > Len(labels) THEN table
  ELSE AddLabels(set_add(table, labels[i], seed), labels, i + 1, seed)

\* the loop over threats: the set seen after the phrases from index i on
RECURSIVE AddAll(_, _, _, _)
AddAll(table, phrases, i, seed) ==
  IF i > Len(phrases) THEN table
  ELSE AddAll(AddLabels(table, ClassifyThreat(phrases[i]), 1, seed), phrases, i + 1, seed)

seen_of(phrases) == AddAll(new_set, phrases, 1, hashseed)

normalize_threats(phrases) ==
  IF phrases = <<>> THEN <<>> ELSE set_iter(seen_of(phrases), 1)

SpeciesItem ==
  [depth_notes |-> depth_notes, min_depth_m |-> min_depth_m, max_depth_m |-> max_depth_m,
   depth_source |-> depth_source, threats |-> normalized_threats]

\* the lists normalize_threats returns for the pages of a list in a process of the
\* given seed
ThreatsUnder(items, seed) ==
  [i \in 1..Len(items) |->
     IF items[i].threats = <<>> THEN <<>>
     ELSE set_iter(AddAll(EmptyTable(8), items[i].threats, 1, seed), 1)]

\* The hash seed shows only in the lists normalize_threats returns: the processes
\* that return the same lists for every page of the list are one process to the
\* model, the one of the least seed.
LeastOfEach(returned) ==
  {p[1] : p \in {q \in returned : \A r \in returned : r[2] = q[2] => q[1] <= r[1]}}
SeedsFor(items) == LeastOfEach({<<s, ThreatsUnder(items, s)>> : s \in HashSeeds})

\* extract_depth_range: line 281 is reached when line 279 has not returned
InferCallsOfExtract(explicit) ==
  IF ~IsNone(explicit.min) \/ ~IsNone(explicit.max) THEN 0 ELSE 1

\* define_depth_source: line 289 is reached when line 287 has not returned
ParseCallsOfDefine(min, max) ==
  IF IsNone(min) /\ IsNone(max) THEN 0 ELSE 1

\* define_depth_source: line 293 is reached when neither line 287 nor line 291
\* (the return of "explicit") has returned
InferCallsOfDefine(min, max, tag) ==
  IF IsNone(min) /\ IsNone(max) THEN 0
  ELSE IF tag = "explicit" THEN 0 ELSE 1

Init ==
  /\ list_items \in InputLists
  /\ hashseed \in SeedsFor(list_items)
  /\ pc = "read"
  /\ idx = 1
  /\ depth_notes = ""
  /\ min_depth_m = None
  /\ max_depth_m = None
  /\ depth_source = ""
  /\ threats = <<>>
  /\ normalized_threats = <<>>
  /\ seen = EmptyTable(8)
  /\ results = <<>>
  /\ run = 1
  /\ prev_seed = 0
  /\ prev_results = <<>>
  /\ explicit_calls = 0
  /\ bucket_calls = 0
  /\ PipeIdle
  /\ LoadIdle

\* lines 450-457: the page of the next species is fetched and its narrative extracted
ReadPage ==
  /\ pc = "read"
  /\ idx <= Len(list_items)
  /\ depth_notes' = list_items[idx].depth_notes
  /\ pc' = "depth"
  /\ UNCHANGED <<list_items, hashseed, idx, min_depth_m, max_depth_m, depth_source, threats,
                 normalized_threats, seen, results, run, prev_seed, prev_results>>
  /\ explicit_calls' = 0
  /\ bucket_calls' = 0
  /\ UNCHANGED <<pipe_vars, load_vars>>

\* line 458
ExtractDepthRange ==
  /\ pc = "depth"
  /\ LET r == extract_depth_range(depth_notes)
     IN  /\ min_depth_m' = r.min
         /\ max_depth_m' = r.max
  /\ explicit_calls' = explicit_calls + 1
  /\ bucket_calls' = bucket_calls + InferCallsOfExtract(_parse_explicit_depth_range_m(depth_notes))
  /\ pc' = "source"
  /\ UNCHANGED <<list_items, hashseed, idx, depth_notes, depth_source, threats,
                 normalized_threats, seen, results, run, prev_seed, prev_results>>
  /\ UNCHANGED <<pipe_vars, load_vars>>

\* line 459
DefineDepthSource ==
  /\ pc = "source"
  /\ depth_source' = define_depth_source(depth_notes, min_depth_m, max_depth_m)
  /\ explicit_calls' = explicit_calls + ParseCallsOfDefine(min_depth_m, max_depth_m)
  /\ bucket_calls' = bucket_calls + InferCallsOfDefine(min_depth_m, max_depth_m, depth_source')
  /\ pc' = "threats"
  /\ UNCHANGED <<list_items, hashseed, idx, depth_notes, min_depth_m, max_depth_m, threats,
                 normalized_threats, seen, results, run, prev_seed, prev_results>>
  /\ UNCHANGED <<pipe_vars, load_vars>>

\* line 462: the raw phrases of the page
ExtractThreats ==
  /\ pc = "threats"
  /\ threats' = list_items[idx].threats
  /\ pc' = "normalize"
  /\ UNCHANGED <<list_items, hashseed, idx, depth_notes, min_depth_m, max_depth_m, depth_source,
                 normalized_threats, seen, results, run, prev_seed, prev_results,
                 explicit_calls, bucket_calls>>
  /\ UNCHANGED <<pipe_vars, load_vars>>

\* line 463
NormalizeThreats ==
  /\ pc = "normalize"
  /\ normalized_threats' = normalize_threats(threats)
  /\ seen' = IF threats = <<>> THEN seen ELSE seen_of(threats)
  /\ pc' = "append"
  /\ UNCHANGED <<list_items, hashseed, idx, depth_notes, min_depth_m, max_depth_m, depth_source,
                 threats, results, run, prev_seed, prev_results,
                 explicit_calls, bucket_calls>>
  /\ UNCHANGED <<pipe_vars, load_vars>>

\* lines 465-479, and the end of the loop
AppendItem ==
  /\ pc = "append"
  /\ results' = Append(results, SpeciesItem)
  /\ idx' = idx + 1
  /\ pc' = IF idx + 1 > Len(list_items) THEN "done" ELSE "read"
  /\ UNCHANGED <<list_items, hashseed, depth_notes, min_depth_m, max_depth_m, depth_source,
                 threats, normalized_threats, seen, run, prev_seed, prev_results,
                 explicit_calls, bucket_calls>>
  /\ UNCHANGED <<pipe_vars, load_vars>>

\* the pipeline is run again on the same list, in a new interpreter process
Rerun ==
  /\ pc = "done"
  /\ run < MaxRuns
  /\ hashseed' \in SeedsFor(list_items)
  /\ prev_seed' = hashseed
  /\ prev_results' = results
  /\ run' = run + 1
  /\ pc' = "read"
  /\ idx' = 1
  /\ depth_notes' = ""
  /\ min_depth_m' = None
  /\ max_depth_m' = None
  /\ depth_source' = ""
  /\ threats' = <<>>
  /\ normalized_threats' = <<>>
  /\ seen' = EmptyTable(8)
  /\ results' = <<>>
  /\ explicit_calls' = 0
  /\ bucket_calls' = 0
  /\ UNCHANGED list_items
  /\ UNCHANGED <<pipe_vars, load_vars>>

Next ==
  \/ ReadPage
  \/ ExtractDepthRange
  \/ DefineDepthSource
  \/ ExtractThreats
  \/ NormalizeThreats
  \/ AppendItem
  \/ Rerun

Spec == Init /\ [][Next]_vars

\* scrape() is not running
ScrapeIdle ==
  /\ list_items = <<>>
  /\ hashseed = 1
  /\ pc = "idle"
  /\ idx = 1
  /\ depth_notes = ""
  /\ min_depth_m = None
  /\ max_depth_m = None
  /\ depth_source = ""
  /\ threats = <<>>
  /\ normalized_threats = <<>>
  /\ seen = EmptyTable(8)
  /\ results = <<>>
  /\ run = 1
  /\ prev_seed = 0
  /\ prev_results = <<>>
  /\ explicit_calls = 0
  /\ bucket_calls = 0

(***************************************************************************)
(* run_pipeline.main.  A step is a subprocess: it is started, runs, and    *)
(* ends with an exit code the program does not control.                    *)
(***************************************************************************)
\* the exit codes of a subprocess: success, two failures, death by signal 9
ExitCodes == {0, 1, 2, -9}

\* what subprocess.run does at its start: the process is spawned, or the
\* interpreter of --python cannot be executed and OSError is raised
Launches == {"spawned", "OSError"}

\* the statement after the step at statement at
NextStatement(at) ==
  CASE at = "list" -> "details"
    [] at = "details" -> "load"
    [] at = "load" -> "done"

\* subprocess.run without check=True: the exit code is not looked at
AfterExit_unchecked(code, at) == NextStatement(at)

\* subprocess.run(cmd, check=True): a non-zero exit code raises CalledProcessError
AfterExit(code, at) == IF code = 0 THEN NextStatement(at) ELSE "except"

PipeInit ==
  /\ args \in [skip_list : BOOLEAN, skip_details : BOOLEAN, load : BOOLEAN]
  /\ environ \in BOOLEAN
  /\ main_pc = "list"
  /\ running = ""
  /\ started = <<>>
  /\ exits = <<>>
  /\ url_checked = FALSE
  /\ main_result = NoResult
  /\ ScrapeIdle
  /\ LoadIdle

\* _run(cmd) up to the start of the subprocess, for the step at main_pc
StartStep(launch) ==
  IF launch = "spawned"
  THEN /\ running' = main_pc
       /\ started' = Append(started, main_pc)
       /\ UNCHANGED <<main_pc, main_result>>
  ELSE /\ main_pc' = "ended"
       /\ main_result' = [kind |-> "OSError", code |-> 0]
       /\ UNCHANGED <<running, started>>

\* lines 50-53
ListStep ==
  /\ main_pc = "list"
  /\ running = ""
  /\ IF ~args.skip_list
     THEN \E launch \in Launches : StartStep(launch)
     ELSE /\ main_pc' = "details"
          /\ UNCHANGED <<running, started, main_result>>
  /\ UNCHANGED <<args, environ, exits, url_checked>>
  /\ UNCHANGED <<vars, load_vars>>

\* lines 55-58
DetailsStep ==
  /\ main_pc = "details"
  /\ running = ""
  /\ IF ~args.skip_details
     THEN \E launch \in Launches : StartStep(launch)
     ELSE /\ main_pc' = "load"
          /\ UNCHANGED <<running, started, main_result>>
  /\ UNCHANGED <<args, environ, exits, url_checked>>
  /\ UNCHANGED <<vars, load_vars>>

\* lines 60-66
LoadStep ==
  /\ main_pc = "load"
  /\ running = ""
  /\ IF args.load
     THEN /\ url_checked' = TRUE
          /\ IF ~environ
             THEN /\ main_pc' = "ended"
                  /\ main_result' = [kind |-> "SystemExit", code |-> 1]
                  /\ UNCHANGED <<running, started>>
             ELSE \E launch \in Launches : StartStep(launch)
     ELSE /\ main_pc' = "done"
          /\ UNCHANGED <<running, started, main_result, url_checked>>
  /\ UNCHANGED <<args, environ, exits>>
  /\ UNCHANGED <<vars, load_vars>>

\* line 13: the subprocess of the running step ends and subprocess.run returns or
\* raises
StepExits ==
  /\ running # ""
  /\ \E code \in ExitCodes :
       /\ exits' = Append(exits, [step |-> running, code |-> code])
       /\ main_pc' = AfterExit(code, main_pc)
  /\ running' = ""
  /\ UNCHANGED <<args, environ, started, url_checked, main_result>>
  /\ UNCHANGED <<vars, load_vars>>

\* lines 68-69
Done ==
  /\ main_pc = "done"
  /\ main_result' = [kind |-> "Done", code |-> 0]
  /\ main_pc' = "ended"
  /\ UNCHANGED <<args, environ, running, started, exits, url_checked>>
  /\ UNCHANGED <<vars, load_vars>>

\* lines 70-72: e is the CalledProcessError of the step that has just ended
Except ==
  /\ main_pc = "except"
  /\ main_result' = [kind |-> "failed", code |-> exits[Len(exits)].code]
  /\ main_pc' = "ended"
  /\ UNCHANGED <<args, environ, running, started, exits, url_checked>>
  /\ UNCHANGED <<vars, load_vars>>

PipeNext ==
  \/ ListStep
  \/ DetailsStep
  \/ LoadStep
  \/ StepExits
  \/ Done
  \/ Except

PipeSpec == PipeInit /\ [][PipeNext]_<<vars, pipe_vars, load_vars>>

(***************************************************************************)
(* backend.load_to_db.  The tables hold the columns the statements use:    *)
(* species(id, source_record_id, common_name, min_depth_m), the key        *)
(* (source, source_record_id) with the one source of the pipeline, and     *)
(* common_name and min_depth_m standing for the NOT NULL columns and the   *)
(* checked depth columns; threat(id, name); species_threat(species_id,     *)
(* threat_id) as pairs.  A table is the set of its rows.                   *)
(***************************************************************************)
MaxRows == 2
MaxLoads == 2

\* the values of the JSON list "threats": a string, null, a number other than 0
Str(s) == [kind |-> "str", text |-> s]
Null == [kind |-> "null", text |-> ""]
Num == [kind |-> "num", text |-> ""]

\* (t or "").strip(), for a string or null
Clean(t) == IF t.kind = "str" THEN str_strip(t.text) ELSE ""

\* the constraints of table species: NOT NULL, and the depth not negative
ViolatesSpecies(row) ==
  \/ IsNone(row.source_record_id)
  \/ IsNone(row.common_name)
  \/ (~IsNone(row.min_depth_m) /\ row.min_depth_m[1] < 0)

\* UPSERT_SPECIES_SQL: nextval of the id sequence is taken before the row is tried
upsert_species(tables, seq, row) ==
  LET next == [seq EXCEPT !.species = @ + 1]
      found == IF IsNone(row.source_record_id) THEN {}
               ELSE {r \in tables.species : r.source_record_id = row.source_record_id[1]}
  IN  IF ViolatesSpecies(row)
        THEN [raised |-> TRUE, tables |-> tables, seqs |-> next, id |-> 0]
      ELSE IF found = {}
        THEN [raised |-> FALSE,
              tables |-> [tables EXCEPT !.species = @ \cup
                            {[id |-> next.species, source_record_id |-> row.source_record_id[1],
                              common_name |-> row.common_name[1],
                              min_depth_m |-> row.min_depth_m]}],
              seqs |-> next, id |-> next.species]
      ELSE LET old == CHOOSE r \in found : TRUE
           IN  [raised |-> FALSE,
                tables |-> [tables EXCEPT !.species = (@ \ {old}) \cup
                              {[old EXCEPT !.common_name = row.common_name[1],
                                           !.min_depth_m = row.min_depth_m]}],
                seqs |-> next, id |-> old.id]

\* upsert_threat, lines 89-94, with UPSERT_THREAT_SQL
upsert_threat(tables, seq, name) ==
  LET clean == str_strip(name)
      next == [seq EXCEPT !.threat = @ + 1]
      found == {r \in tables.threat : r.name = clean}
  IN  IF clean = "" THEN [raised |-> TRUE, tables |-> tables, seqs |-> seq, id |-> 0]
      ELSE IF found = {}
        THEN [raised |-> FALSE,
              tables |-> [tables EXCEPT !.threat = @ \cup {[id |-> next.threat, name |-> clean]}],
              seqs |-> next, id |-> next.threat]
      ELSE [raised |-> FALSE, tables |-> tables, seqs |-> next,
            id |-> (CHOOSE r \in found : TRUE).id]

\* INSERT_SPECIES_THREAT_SQL with the threat just upserted; rowcount is 0 on conflict
InsertLink(u, species_id, inserted) ==
  [raised |-> u.raised,
   tables |-> IF u.raised THEN u.tables
              ELSE [u.tables EXCEPT !.species_threat = @ \cup {<<species_id, u.id>>}],
   seqs |-> u.seqs,
   inserted |-> IF u.raised \/ <<species_id, u.id>> \in u.tables.species_threat
                THEN inserted ELSE inserted + 1]

\* lines 100-107: the loop from index i on; a number has no strip() and raises
RECURSIVE ReplaceLoop(_, _, _, _)
ReplaceLoop(acc, species_id, threat_names, i) ==
  IF acc.raised \/ i > Len(threat_names) THEN acc
  ELSE IF threat_names[i].kind = "num" THEN [acc EXCEPT !.raised = TRUE]
  ELSE IF Clean(threat_names[i]) = "" THEN ReplaceLoop(acc, species_id, threat_names, i + 1)
  ELSE ReplaceLoop(InsertLink(upsert_threat(acc.tables, acc.seqs, Clean(threat_names[i])),
                              species_id, acc.inserted),
                   species_id, threat_names, i + 1)

\* a replacement that leaves the links the species already has
replace_species_threats_no_delete(tables, seq, species_id, threat_names) ==
  ReplaceLoop([raised |-> FALSE, tables |-> tables, seqs |-> seq, inserted |-> 0],
              species_id, threat_names, 1)

\* lines 97-108
replace_species_threats(tables, seq, species_id, threat_names) ==
  ReplaceLoop([raised |-> FALSE,
               tables |-> [tables EXCEPT !.species_threat = {l \in @ : l[1] # species_id}],
               seqs |-> seq, inserted |-> 0],
              species_id, threat_names, 1)

\* a connection with autocommit: every statement is committed as it is run
Committed_autocommit(committed, working) == working

\* conn.autocommit = False: what the other sessions see after a statement of the
\* open transaction is what was committed before
Committed(committed, working) == committed

\* Records of the input file.
Record(id, name, min, names) ==
  [source_record_id |-> id, common_name |-> name, min_depth_m |-> min, threats |-> names]

RowPool ==
  { Record(Some("s1"), Some("Blue whale"), Some(10), <<Str("fishing"), Str(" disease ")>>),
    Record(Some("s1"), Some("Blue whale"), Some(20),
           <<Str("fishing"), Str("fishing\f"), Str(" \t"), Null, Str("habitat loss")>>),
    Record(Some("s2"), Some("Fin whale"), None, <<Str("pollution")>>),
    Record(Some("s2"), Some("Fin whale"), None, <<>>),
    Record(Some("s2"), None, None, <<Str("fishing")>>),
    Record(Some("s2"), Some("Fin whale"), Some(-5), <<Str("fishing")>>),
    Record(Some("s2"), Some("Fin whale"), Some(30), <<Str("disease"), Num, Str("fishing")>>) }

InputFiles == UNION {SeqsOf(RowPool, n) : n \in 0..MaxRows}

\* the database before the first load: the empty tables, or the tables an earlier
\* load has left
Stores ==
  { [db |-> EmptyTables, seqs |-> [species |-> 0, threat |-> 0]],
    [db |-> [species |-> {[id |-> 1, source_record_id |-> "s1", common_name |-> "Blue whale",
                           min_depth_m |-> Some(5)],
                          [id |-> 2, source_record_id |-> "s9", common_name |-> "Vaquita",
                           min_depth_m |-> None]},
             threat |-> {[id |-> 1, name |-> "pollution"], [id |-> 2, name |-> "fishing"]},
             species_threat |-> {<<1, 1>>, <<2, 1>>, <<2, 2>>}],
     seqs |-> [species |-> 2, threat |-> 2]] }

LoadInit ==
  /\ rows \in InputFiles
  /\ \E store \in Stores :
       /\ db = store.db
       /\ seqs = store.seqs
       /\ db_at_start = store.db
  /\ conn = "none"
  /\ tx = EmptyTables
  /\ load_pc = "connect"
  /\ row_i = 1
  /\ s_id = 0
  /\ species_count = 0
  /\ link_count = 0
  /\ load_result = "none"
  /\ loads = 1
  /\ replaced = NoReplace
  /\ db_after_first = None
  /\ ScrapeIdle
  /\ PipeIdle

\* db.py lines 38-41 and load_to_db.py lines 113-116
Connect ==
  /\ load_pc = "connect"
  /\ conn' = "open"
  /\ tx' = db
  /\ db_at_start' = db
  /\ row_i' = 1
  /\ species_count' = 0
  /\ link_count' = 0
  /\ load_pc' = "row"
  /\ UNCHANGED <<rows, db, seqs, s_id, load_result, loads, replaced, db_after_first>>
  /\ UNCHANGED <<vars, pipe_vars>>

\* lines 117-119
UpsertSpecies ==
  /\ load_pc = "row"
  /\ row_i <= Len(rows)
  /\ LET u == upsert_species(tx, seqs, rows[row_i])
     IN  /\ seqs' = u.seqs
         /\ tx' = u.tables
         /\ db' = Committed(db, u.tables)
         /\ s_id' = u.id
         /\ species_count' = IF u.raised THEN species_count ELSE species_count + 1
         /\ load_pc' = IF u.raised THEN "except" ELSE "replace"
  /\ UNCHANGED <<rows, conn, row_i, link_count, load_result, loads, db_at_start, replaced,
                 db_after_first>>
  /\ UNCHANGED <<vars, pipe_vars>>

\* lines 120-122
ReplaceThreats ==
  /\ load_pc = "replace"
  /\ LET r == replace_species_threats(tx, seqs, s_id, rows[row_i].threats)
     IN  /\ seqs' = r.seqs
         /\ tx' = r.tables
         /\ db' = Committed(db, r.tables)
         /\ replaced' = [species_id |-> s_id, names |-> rows[row_i].threats, before |-> tx,
                         inserted |-> r.inserted]
         /\ link_count' = IF r.raised THEN link_count ELSE link_count + r.inserted
         /\ row_i' = IF r.raised THEN row_i ELSE row_i + 1
         /\ load_pc' = IF r.raised THEN "except" ELSE "row"
  /\ UNCHANGED <<rows, conn, s_id, species_count, load_result, loads, db_at_start,
                 db_after_first>>
  /\ UNCHANGED <<vars, pipe_vars>>

\* the loop has ended: lines 123-124, then db.py line 42
Commit ==
  /\ load_pc = "row"
  /\ row_i > Len(rows)
  /\ db' = tx
  /\ load_pc' = "finally"
  /\ load_result' = "ok"
  /\ UNCHANGED <<rows, seqs, conn, tx, row_i, s_id, species_count, link_count, loads,
                 db_at_start, replaced, db_after_first>>
  /\ UNCHANGED <<vars, pipe_vars>>

\* db.py lines 43-45: the exception of the row is caught, the transaction rolled
\* back and the exception raised again
Rollback ==
  /\ load_pc = "except"
  /\ tx' = db
  /\ load_pc' = "finally"
  /\ load_result' = "raised"
  /\ UNCHANGED <<rows, db, seqs, conn, row_i, s_id, species_count, link_count, loads,
                 db_at_start, replaced, db_after_first>>
  /\ UNCHANGED <<vars, pipe_vars>>

\* db.py lines 46-47, and the end of main
Close ==
  /\ load_pc = "finally"
  /\ conn' = "closed"
  /\ load_pc' = "ended"
  /\ db_after_first' = IF load_result = "ok" /\ IsNone(db_after_first) THEN Some(db)
                       ELSE db_after_first
  /\ UNCHANGED <<rows, db, seqs, tx, row_i, s_id, species_count, link_count, load_result,
                 loads, db_at_start, replaced>>
  /\ UNCHANGED <<vars, pipe_vars>>

\* main is run again on the same input file
Reload ==
  /\ load_pc = "ended"
  /\ loads < MaxLoads
  /\ loads' = loads + 1
  /\ conn' = "none"
  /\ load_pc' = "connect"
  /\ load_result' = "none"
  /\ replaced' = NoReplace
  /\ UNCHANGED <<rows, db, seqs, tx, row_i, s_id, species_count, link_count, db_at_start,
                 db_after_first>>
  /\ UNCHANGED <<vars, pipe_vars>>

LoadNext ==
  \/ Connect
  \/ UpsertSpecies
  \/ ReplaceThreats
  \/ Commit
  \/ Rollback
  \/ Close
  \/ Reload

LoadSpec == LoadInit /\ [][LoadNext]_<<vars, pipe_vars, load_vars>>

(***************************************************************************)
(* Properties.                                                             *)
(***************************************************************************)
\* the depth part of the record of the current species has just been computed
DepthDone == pc = "threats"
\* the whole record of the current species is computed
ItemDone == pc = "append"

CanonicalLabels ==
  {"climate change", "disease", "fishing", "habitat loss", "pollution", "predation", "low population"}
SourceTags == {"explicit", "bucket:shallow", "bucket:continental_shelf", "bucket:deep", "unknown"}

IsOptNat(o) == o = None \/ (Len(o) = 1 /\ o[1] \in Nat)

\* the step of the explicit matcher that decides the narrative
Deciding(notes) ==
  IF notes = "" THEN NoSentence ELSE ScanSentences(split_sentences(notes), 1)

\* C1: whenever both bounds of a depth result are present, min_depth_m <= max_depth_m,
\* for the bounds just computed and for every record already produced.
C1_MinLeMax ==
  /\ (min_depth_m # None /\ max_depth_m # None) => min_depth_m[1] <= max_depth_m[1]
  /\ \A i \in 1..Len(results) :
       (results[i].min_depth_m # None /\ results[i].max_depth_m # None)
         => results[i].min_depth_m[1] <= results[i].max_depth_m[1]

\* a range written greater bound first, in feet, has been extracted
C1_Witness ==
  /\ DepthDone
  /\ depth_notes = "They occur at depths from 1,875 to 625 ft."
  /\ depth_source = "explicit"
  /\ min_depth_m = <<190>>
  /\ max_depth_m = <<572>>

\* C2: every produced record has depth_source among the five tags, and each of its
\* bounds is None or a non-negative integer.
C2_RecordShape ==
  /\ DepthDone => /\ depth_source \in SourceTags
                  /\ IsOptNat(min_depth_m)
                  /\ IsOptNat(max_depth_m)
  /\ \A i \in 1..Len(results) :
       /\ results[i].depth_source \in SourceTags
       /\ IsOptNat(results[i].min_depth_m)
       /\ IsOptNat(results[i].max_depth_m)

\* a record tagged with a bucket has been produced
C2_Witness ==
  \E i \in 1..Len(results) :
    /\ results[i].depth_source = "bucket:continental_shelf"
    /\ results[i].min_depth_m = <<20>>
    /\ results[i].max_depth_m = <<200>>

\* C3: when the explicit matcher finds a depth the bounds are its bounds and the tag
\* is "explicit", whatever bucket keywords the narrative holds; when it finds none
\* and a bucket keyword is present, the bounds are the bucket's range and the tag
\* is "bucket:<name>".
C3_ExplicitBeforeBucket ==
  DepthDone =>
    LET e == _parse_explicit_depth_range_m(depth_notes)
        b == _infer_depth_bucket_range_m(depth_notes)
    IN  IF e.min # None \/ e.max # None
        THEN /\ min_depth_m = e.min
             /\ max_depth_m = e.max
             /\ depth_source = "explicit"
        ELSE b.bucket # "" =>
             /\ min_depth_m = b.min
             /\ max_depth_m = b.max
             /\ depth_source = "bucket:" \o b.bucket

\* an explicit range wins over the shallow keywords "coastal" and "reef"
C3_Witness ==
  /\ DepthDone
  /\ depth_notes = "They are found at depths between 100 and 200 feet. They prefer coastal reef habitat."
  /\ min_depth_m = <<30>>
  /\ max_depth_m = <<61>>
  /\ depth_source = "explicit"

\* C4: an empty narrative, or one with no explicit match and no bucket keyword,
\* gives (None, None, "unknown"); an empty phrase list gives an empty list.
C4_UnknownAndEmpty ==
  /\ DepthDone =>
       LET e == _parse_explicit_depth_range_m(depth_notes)
           b == _infer_depth_bucket_range_m(depth_notes)
       IN  (depth_notes = "" \/ (e.min = None /\ e.max = None /\ b.bucket = ""))
             => /\ min_depth_m = None
                /\ max_depth_m = None
                /\ depth_source = "unknown"
  /\ (ItemDone /\ threats = <<>>) => normalized_threats = <<>>

\* the record of a page with an empty narrative and no phrases
C4_Witness ==
  /\ ItemDone
  /\ depth_notes = ""
  /\ threats = <<>>
  /\ min_depth_m = None
  /\ max_depth_m = None
  /\ depth_source = "unknown"
  /\ normalized_threats = <<>>

\* C5: the output of normalize_threats never has more categories than the input has
\* phrases, and a list of one phrase gives at most one category.
C5_OnePerPhrase ==
  ItemDone =>
    /\ Len(normalized_threats) <= Len(threats)
    /\ Cardinality(Range(normalized_threats)) <= Len(threats)

\* one phrase with keywords of two categories ("habitat", "fishing") gave one category
C5_Witness ==
  /\ ItemDone
  /\ threats = <<"Habitat loss from fishing gear">>
  /\ Len(normalized_threats) = 1

\* the categories, in the order the claim gives, whose keywords occur in the phrase
ClaimedOrder ==
  <<"climate change", "disease", "fishing", "habitat loss", "pollution", "predation", "low population">>
KeywordsOf(label) ==
  CASE label = "climate change" -> cc_keywords
    [] label = "disease" -> disease_keywords
    [] label = "fishing" -> fishing_keywords
    [] label = "habitat loss" -> habitat_keywords
    [] label = "pollution" -> pollution_keywords
    [] label = "predation" -> predation_keywords
    [] label = "low population" -> population_keywords
MatchingRanks(phrase) ==
  {k \in 1..Len(ClaimedOrder) : AnyKeywordIn(KeywordsOf(ClaimedOrder[k]), str_lower(phrase))}
\* the category the claimed priority gives the phrase, as a set of zero or one label
Expected(phrase) ==
  LET ranks == MatchingRanks(phrase)
  IN  IF ranks = {} THEN {}
      ELSE {ClaimedOrder[CHOOSE k \in ranks : \A j \in ranks : k <= j]}

\* C6: each phrase is classified under the first category, in the order climate
\* change, disease, fishing, habitat loss, pollution, predation, low population,
\* that has a keyword in it; the output holds exactly those categories.
C6_PriorityOrder ==
  ItemDone =>
    Range(normalized_threats) = UNION {Expected(threats[i]) : i \in 1..Len(threats)}

\* "population" and "disease" in one phrase: disease
C6_Witness ==
  /\ ItemDone
  /\ threats = <<"Small population size and disease">>
  /\ normalized_threats = <<"disease">>

RECURSIVE Reverse(_)
Reverse(seq) == IF seq = <<>> THEN <<>> ELSE Append(Reverse(Tail(seq)), Head(seq))

\* C7: the output is the duplicate-free union of the classifications of the phrases:
\* canonical labels only, no label twice, nothing for a phrase of no category, and
\* the same set for the phrases reversed or repeated.
C7_DuplicateFreeUnion ==
  ItemDone =>
    /\ Range(normalized_threats) \subseteq CanonicalLabels
    /\ Cardinality(Range(normalized_threats)) = Len(normalized_threats)
    /\ Range(normalized_threats) = UNION {Range(ClassifyThreat(threats[i])) : i \in 1..Len(threats)}
    /\ Range(normalize_threats(Reverse(threats))) = Range(normalized_threats)
    /\ Range(normalize_threats(threats \o threats)) = Range(normalized_threats)

\* the example of the specification
C7_Witness ==
  /\ ItemDone
  /\ threats = <<"Bycatch in commercial fisheries", "Ocean warming and acidification", "Unknown causes">>
  /\ Range(normalized_threats) = {"fishing", "climate change"}
  /\ Len(normalized_threats) = 2

\* the record without the order of its list of threats
Unordered(item) == [item EXCEPT !.threats = Range(item.threats)]
\* scrape() has run again over the same list
RunAgain == pc = "done" /\ run > 1

\* C8 as claimed: the second run of the same input gives the same records, the
\* order of each list of threats included.
C8_SameListOrder == RunAgain => results = prev_results

\* C8: two calls on the same input within one interpreter process give the same
\* bounds, tag and list of threats, order included; a second process gives the
\* same bounds and tag and the same threats as a set, and the same list order
\* when its string hash seed is the same.
C8_Determinism ==
  /\ \A i, j \in 1..Len(results) : list_items[i] = list_items[j] => results[i] = results[j]
  /\ RunAgain =>
       /\ Len(results) = Len(prev_results)
       /\ \A i \in 1..Len(results) :
            /\ Unordered(results[i]) = Unordered(prev_results[i])
            /\ Len(results[i].threats) = Len(prev_results[i].threats)
       /\ hashseed = prev_seed => results = prev_results

\* a list with the same page twice, run in two processes whose seeds order the
\* threats of a page differently
C8_Witness ==
  /\ RunAgain
  /\ hashseed # prev_seed
  /\ Len(list_items) = 3
  /\ list_items[1] = list_items[3]
  /\ list_items[1] # list_items[2]
  /\ results[1] = results[3]
  /\ results # prev_results

\* r is V * 0.3048 rounded to the nearest integer, a half going to the even one:
\* r - V * 381/1250 lies within a half, and at exactly a half r is even
Abs(n) == IF n < 0 THEN -n ELSE n
IsHalfEvenFeet(r, V) ==
  LET d == Abs(1250 * r - 381 * V)
  IN  d <= 625 /\ (d = 625 => r % 2 = 0)
\* the meters the claim gives value V in the unit as written
IsMetersOf(r, V, unit) ==
  IF str_lower(unit) \in {"ft", "feet"} THEN IsHalfEvenFeet(r, V)
  ELSE str_lower(unit) \in {"m", "meter", "meters"} /\ r = V

\* C9: every bound of an explicit result is the captured value unchanged when the
\* unit is m, meter or meters, and round-half-to-even(value * 0.3048) when it is ft
\* or feet, in any letter case; the two bounds of a range are converted one by one.
C9_UnitConversion ==
  DepthDone =>
    LET sm == Deciding(depth_notes)
        unit == Group(sm.m, sm.s, "unit")
        a == NumberOf(sm.m, sm.s, "a")
        b == NumberOf(sm.m, sm.s, "b")
    IN  CASE sm.kind = "range" ->
               /\ IsMetersOf(min_depth_m[1], Min2(a, b), unit)
               /\ IsMetersOf(max_depth_m[1], Max2(a, b), unit)
          [] sm.kind = "single" ->
               /\ IsMetersOf(min_depth_m[1], a, unit)
               /\ IsMetersOf(max_depth_m[1], a, unit)
          [] sm.kind = "lt" -> IsMetersOf(max_depth_m[1], a, unit)
          [] OTHER -> TRUE

\* 625 FT is 190.5 m, which rounds to the even 190
C9_Witness ==
  /\ DepthDone
  /\ depth_notes = "They dive to about 625 FT deep."
  /\ min_depth_m = <<190>>
  /\ max_depth_m = <<190>>

\* some range pattern, and some single-value pattern, matches the text
AnyMatch(pats, sl) == \E i \in 1..Len(pats) : ReSearch(pats[i], sl).ok

\* C10: when the sentence that decides the result matches both a range pattern and
\* a single-value pattern, the result is that of the range pattern.
C10_RangeBeforeSingle ==
  DepthDone =>
    LET sm == Deciding(depth_notes)
        sl == str_lower(sm.s)
    IN  (sm.kind # "none" /\ AnyMatch(RangePatterns, sl) /\ AnyMatch(SinglePatterns, sl))
          => /\ sm.kind = "range"
             /\ [min |-> min_depth_m, max |-> max_depth_m]
                  = RangeResult(FirstMatch(RangePatterns, sl, 1).m, sm.s)

\* "as deep as 640 feet" comes first in the sentence, the range decides
C10_Witness ==
  /\ DepthDone
  /\ depth_notes = "They dive as deep as 640 feet They are found at depths between 100 and 200 feet."
  /\ min_depth_m = <<30>>
  /\ max_depth_m = <<61>>
  /\ depth_source = "explicit"

\* the bucket table in the order deep, continental_shelf, shallow
ClaimedBuckets ==
  << [keywords |-> deep_keywords, min |-> 200, max |-> 1000, bucket |-> "deep"],
     [keywords |-> shelf_keywords, min |-> 20, max |-> 200, bucket |-> "continental_shelf"],
     [keywords |-> shallow_keywords, min |-> 0, max |-> 20, bucket |-> "shallow"] >>

\* the buckets with a keyword in the lower-cased, whitespace-normalized narrative
BucketRanks(notes) ==
  {i \in 1..Len(ClaimedBuckets) :
     AnyKeywordIn(ClaimedBuckets[i].keywords, str_lower(_normalize_space(notes)))}

FirstBucket(ranks) ==
  IF ranks = {} THEN NoBucket
  ELSE LET k == CHOOSE i \in ranks : \A j \in ranks : i <= j
       IN  [min |-> Some(ClaimedBuckets[k].min), max |-> Some(ClaimedBuckets[k].max),
            bucket |-> ClaimedBuckets[k].bucket]

\* C11: bucket inference returns the first bucket, in the order deep,
\* continental_shelf, shallow, that has a keyword somewhere in the lower-cased,
\* whitespace-normalized narrative, and (None, None, no name) when none has; a
\* record that is not explicit carries the bounds of that bucket.
C11_BucketOrder ==
  DepthDone =>
    LET claimed == FirstBucket(BucketRanks(depth_notes))
    IN  /\ _infer_depth_bucket_range_m(depth_notes) = claimed
        /\ depth_source # "explicit" =>
              /\ min_depth_m = claimed.min
              /\ max_depth_m = claimed.max
              /\ depth_source = IF claimed.bucket = "" THEN "unknown"
                                ELSE "bucket:" \o claimed.bucket

\* a narrative with the deep keyword "deep sea" and the shallow keywords "coastal"
\* and "reef" is classified deep
C11_Witness ==
  /\ DepthDone
  /\ depth_notes = "This species lives in the deep sea and rarely surfaces. They prefer coastal reef habitat."
  /\ BucketRanks(depth_notes) = {1, 3}
  /\ min_depth_m = <<200>>
  /\ max_depth_m = <<1000>>
  /\ depth_source = "bucket:deep"

\* what each sentence of the narrative gives on its own, in the original order
SentenceMatches(notes) ==
  IF notes = "" THEN <<>>
  ELSE LET sentences == split_sentences(notes)
       IN  [i \in 1..Len(sentences) |-> SentenceMatch(sentences[i])]

Decides(sm) == sm.kind \in {"range", "single", "lt"}

\* the result of the first sentence that passes the filters and matches a pattern
FirstDeciding(sms) ==
  LET hits == {i \in 1..Len(sms) : Decides(sms[i])}
  IN  IF hits = {} THEN NoDepth
      ELSE SentenceResult(sms[CHOOSE i \in hits : \A j \in hits : i <= j])

\* C12: the explicit result is that of the first sentence, in the original order,
\* that passes the context filters and matches a range, single-value or less-than
\* pattern, whatever the later sentences match; it is the result of the record.
C12_FirstSentenceDecides ==
  DepthDone =>
    LET first == FirstDeciding(SentenceMatches(depth_notes))
    IN  /\ _parse_explicit_depth_range_m(depth_notes) = first
        /\ first # NoDepth =>
              /\ min_depth_m = first.min
              /\ max_depth_m = first.max
              /\ depth_source = "explicit"

\* the less-than match of the first sentence stands against the range of the second
C12_Witness ==
  /\ DepthDone
  /\ depth_notes = "Seen at depths less than 20 m. They are found at depths between 100 and 200 feet."
  /\ SentenceMatches(depth_notes)[1].kind = "lt"
  /\ SentenceMatches(depth_notes)[2].kind = "range"
  /\ min_depth_m = <<0>>
  /\ max_depth_m = <<20>>
  /\ depth_source = "explicit"

\* the word w stands in the lower-cased text sl as a whole word
HasWord(sl, w) ==
  \E p \in 1..(Len(sl) - Len(w) + 1) :
     /\ SubSeq(sl, p, p + Len(w) - 1) = w
     /\ ~IsWordChar(CharAt(sl, p - 1))
     /\ ~IsWordChar(CharAt(sl, p + Len(w)))

HasDepthToken(s) == \E w \in {"depth", "depths", "deep"} : HasWord(str_lower(s), w)
HasLengthToken(s) == \E w \in {"length", "long"} : HasWord(str_lower(s), w)

\* C13: a sentence with a depth-context token and a body-length token, both as
\* whole words, is never the sentence that decides the explicit result, whatever
\* pattern it matches: the scan goes on to the next sentence, and a record is
\* tagged "explicit" only when another sentence decides.
C13_LengthSentenceRejected ==
  DepthDone =>
    LET sms == SentenceMatches(depth_notes)
    IN  /\ \A i \in 1..Len(sms) :
              (HasDepthToken(sms[i].s) /\ HasLengthToken(sms[i].s)) => sms[i].kind = "length"
        /\ [min |-> min_depth_m, max |-> max_depth_m] # FirstDeciding(sms)
              => depth_source # "explicit"

\* "625 ft deep" of the first sentence is passed over because of "long"; the range
\* of the second sentence decides
C13_Witness ==
  /\ DepthDone
  /\ depth_notes = "Adults are 10 feet long and dive 625 ft deep. They are found at depths between 100 and 200 feet."
  /\ HasDepthToken(SentenceMatches(depth_notes)[1].s)
  /\ HasLengthToken(SentenceMatches(depth_notes)[1].s)
  /\ ReSearch(single_deep_re, str_lower(SentenceMatches(depth_notes)[1].s)).ok
  /\ min_depth_m = <<30>>
  /\ max_depth_m = <<61>>
  /\ depth_source = "explicit"

\* C14: a sentence without a depth-context token as a whole word never decides the
\* explicit result, whatever its numbers and units and whatever tokens the other
\* sentences hold; a narrative in which no sentence has one is never tagged
\* "explicit", its record is the one bucket inference gives, (None, None,
\* "unknown") when no bucket keyword is present.
C14_DepthContextRequired ==
  DepthDone =>
    LET sms == SentenceMatches(depth_notes)
        claimed == FirstBucket(BucketRanks(depth_notes))
    IN  /\ \A i \in 1..Len(sms) : ~HasDepthToken(sms[i].s) => sms[i].kind = "nocontext"
        /\ (\A i \in 1..Len(sms) : ~HasDepthToken(sms[i].s)) =>
              /\ depth_source # "explicit"
              /\ min_depth_m = claimed.min
              /\ max_depth_m = claimed.max
              /\ depth_source = IF claimed.bucket = "" THEN "unknown"
                                ELSE "bucket:" \o claimed.bucket
              /\ BucketRanks(depth_notes) = {} =>
                    /\ min_depth_m = None
                    /\ max_depth_m = None
                    /\ depth_source = "unknown"

\* "from 100 to 200 feet" stands in a sentence without a depth token, the token
\* "deep" in the next sentence: the range is not taken, the bucket is
C14_Witness ==
  /\ DepthDone
  /\ depth_notes = "Dives range from 100 to 200 feet. This species lives in the deep sea and rarely surfaces."
  /\ ~HasDepthToken(SentenceMatches(depth_notes)[1].s)
  /\ ReSearch(between_re, str_lower(SentenceMatches(depth_notes)[1].s)).ok
  /\ HasDepthToken(SentenceMatches(depth_notes)[2].s)
  /\ min_depth_m = <<200>>
  /\ max_depth_m = <<1000>>
  /\ depth_source = "bucket:deep"

\* the number a numeric token stands for, its commas left out: each digit weighs
\* ten to the number of digits after it
RECURSIVE SumDigits(_, _)
SumDigits(g, at) ==
  IF at = {} THEN 0
  ELSE LET i == CHOOSE p \in at : \A q \in at : p <= q
       IN  DigitVal(CharAt(g, i)) * 10 ^ (Cardinality(at) - 1) + SumDigits(g, at \ {i})
TokenValue(g) == SumDigits(g, {i \in 1..Len(g) : IsDigit(CharAt(g, i))})

\* C15: when a range pattern decides, with numeric tokens A and B and one unit, the
\* record is (round(meters(min(A, B))), round(meters(max(A, B))), "explicit"), the
\* commas of the tokens left out and both bounds converted with that unit.
C15_RangeResult ==
  DepthDone =>
    LET sm == Deciding(depth_notes)
    IN  sm.kind = "range" =>
          LET numA == TokenValue(Group(sm.m, sm.s, "a"))
              numB == TokenValue(Group(sm.m, sm.s, "b"))
              unit == Group(sm.m, sm.s, "unit")
          IN  /\ min_depth_m # None /\ max_depth_m # None
              /\ IsMetersOf(min_depth_m[1], IF numA <= numB THEN numA ELSE numB, unit)
              /\ IsMetersOf(max_depth_m[1], IF numA <= numB THEN numB ELSE numA, unit)
              /\ depth_source = "explicit"

\* between 100 and 200 feet: 30.48 and 60.96 round to 30 and 61
C15_Witness ==
  /\ DepthDone
  /\ depth_notes = "They are found at depths between 100 and 200 feet."
  /\ Deciding(depth_notes).kind = "range"
  /\ TokenValue(Group(Deciding(depth_notes).m, Deciding(depth_notes).s, "a")) = 100
  /\ TokenValue(Group(Deciding(depth_notes).m, Deciding(depth_notes).s, "b")) = 200
  /\ min_depth_m = <<30>>
  /\ max_depth_m = <<61>>
  /\ depth_source = "explicit"

\* the single-value patterns in the order "as deep as", "depths to", "diving to",
\* "A <unit> deep/depths"
ClaimedSingleOrder == <<as_deep_as_re, depths_to_re, diving_to_re, single_deep_re>>

\* C16: when a single-value pattern decides (a qualifying sentence without a range
\* match), the record is (val, val) with val the value of the first pattern, in the
\* order "as deep as A <unit>", "depths to A <unit>", "diving to A <unit>
\* depths/deep", "A <unit> deep/depths", that matches the sentence.
C16_ClaimedSinglePriority ==
  DepthDone =>
    LET sm == Deciding(depth_notes)
    IN  sm.kind = "single" =>
          [min |-> min_depth_m, max |-> max_depth_m]
            = SingleResult(FirstMatch(ClaimedSingleOrder, str_lower(sm.s), 1).m, sm.s)

\* an upper-bound statement as the claim reads it: "less than A <unit>" as words,
\* or "<" wherever it stands, then A <unit>
ClaimedLessThan ==
  <<Alt(<< <<L("<")>>, <<B, L("less"), Ws1, L("than")>> >>), Ws0>>
  \o NumPat("a") \o <<Ws0>> \o UnitPat \o <<B>>

\* a sentence that passes the filters, matches no range and no single-value
\* pattern, and holds an upper-bound statement
ClaimedLtCase(sm) ==
  /\ sm.kind \in {"nomatch", "lt"}
  /\ ReSearch(ClaimedLessThan, str_lower(sm.s)).ok

ClaimedLtResult(sm) == LessThanResult(ReSearch(ClaimedLessThan, str_lower(sm.s)), sm.s)

FirstOf(hits) == CHOOSE i \in hits : \A j \in hits : i <= j

\* C17: when the first sentence that decides or holds an upper-bound statement is
\* a qualifying sentence without a range or single-value match that says "less
\* than A <unit>" or "< A <unit>", the record is (0, round(meters(A)), "explicit").
C17_ClaimedLessThanForms ==
  DepthDone =>
    LET sms == SentenceMatches(depth_notes)
        hits == {i \in 1..Len(sms) : Decides(sms[i]) \/ ClaimedLtCase(sms[i])}
    IN  (hits # {} /\ ClaimedLtCase(sms[FirstOf(hits)])) =>
          /\ [min |-> min_depth_m, max |-> max_depth_m] = ClaimedLtResult(sms[FirstOf(hits)])
          /\ depth_source = "explicit"

\* lt is a match of the less-than pattern with its trailing deep/depths group, and
\* the number of the "A <unit> deep/depths" match of sentence step sm is its number
CoversSingle(lt, sm) ==
  /\ lt.ok
  /\ lt.end > lt.caps["unit"][2]
  /\ lt.caps["a"] = sm.m.caps["a"]

\* a deciding sentence whose only depth statement is "less than A <unit> deep" (or
\* "... depths"): nothing but "A <unit> deep/depths" matches, inside that statement
OnlyLessThanDeep(sm) ==
  /\ sm.kind = "single"
  /\ sm.idx = 1
  /\ ~AnyMatch(<<as_deep_as_re, depths_to_re, diving_to_re>>, str_lower(sm.s))
  /\ CoversSingle(ReSearch(lt_re, str_lower(sm.s)), sm)

\* C18: a qualifying sentence whose only depth statement is "less than A <unit>
\* deep" or "less than A <unit> depths" gives (0, round(meters(A))), not
\* (round(meters(A)), round(meters(A))).
C18_ClaimedLessThanDeep ==
  DepthDone =>
    LET sm == Deciding(depth_notes)
    IN  OnlyLessThanDeep(sm) =>
          [min |-> min_depth_m, max |-> max_depth_m]
            = LessThanResult(ReSearch(lt_re, str_lower(sm.s)), sm.s)

\* C19: for each species record the explicit pattern matcher runs at most once and
\* the bucket inferencer runs at most once: the source tagger calls neither.
C19_MatchersRunOnce ==
  /\ explicit_calls <= 1
  /\ bucket_calls <= 1

\* bounds and tag agree: both bounds absent or both present, "unknown" exactly
\* when they are absent, a bucket tag only with the range of that bucket
Consistent(min, max, tag) ==
  /\ (min = None) <=> (max = None)
  /\ (tag = "unknown") <=> (min = None /\ max = None)
  /\ \A i \in 1..Len(ClaimedBuckets) :
        tag = "bucket:" \o ClaimedBuckets[i].bucket =>
          /\ min = Some(ClaimedBuckets[i].min)
          /\ max = Some(ClaimedBuckets[i].max)

\* C20: for every narrative the two bounds are both None or both present,
\* depth_source is "unknown" exactly when both are None, and "bucket:<name>" only
\* with the fixed range of that bucket (shallow 0-20, continental_shelf 20-200,
\* deep 200-1000); this holds of the record being built and of every record
\* produced.
C20_BoundsAndTagConsistent ==
  /\ DepthDone => Consistent(min_depth_m, max_depth_m, depth_source)
  /\ \A i \in 1..Len(results) :
        Consistent(results[i].min_depth_m, results[i].max_depth_m, results[i].depth_source)

\* an upper-bound statement gives the bound 0, which is a bound and not None
C20_Witness ==
  /\ DepthDone
  /\ depth_notes = "Seen at depths less than 20 m."
  /\ min_depth_m = <<0>>
  /\ max_depth_m = <<20>>
  /\ depth_source = "explicit"

\* the steps of run_pipeline in the order list scrape, details scrape, database load
PipelineSteps == <<"list", "details", "load">>
StepRank(s) == CHOOSE k \in 1..Len(PipelineSteps) : PipelineSteps[k] = s
\* the step is selected by the command line
Selected(s) ==
  CASE s = "list" -> ~args.skip_list
    [] s = "details" -> ~args.skip_details
    [] s = "load" -> args.load
ExitedZero(s) == \E i \in 1..Len(exits) : exits[i].step = s /\ exits[i].code = 0
EarlierSucceeded(k) ==
  \A j \in 1..(k - 1) : Selected(PipelineSteps[j]) => ExitedZero(PipelineSteps[j])

\* C21: the steps are started in the order list, details, load, only selected
\* steps and each only after every earlier selected step has exited with code 0;
\* after a non-zero exit no step is started and main returns that exit code;
\* "Done." with return 0 is reached only when every selected step has exited with
\* 0; DATABASE_URL is looked at only after the selected scrape steps have exited
\* with 0.
C21_StepsInOrder ==
  /\ \A i, j \in 1..Len(started) : i < j => StepRank(started[i]) < StepRank(started[j])
  /\ \A i \in 1..Len(started) :
        Selected(started[i]) /\ EarlierSucceeded(StepRank(started[i]))
  /\ \A i \in 1..Len(exits) :
        exits[i].code # 0 =>
          /\ i = Len(exits)
          /\ exits[i].step = started[Len(started)]
          /\ running = ""
          /\ main_pc \in {"except", "ended"}
          /\ main_pc = "ended" => main_result = [kind |-> "failed", code |-> exits[i].code]
  /\ main_result.kind = "Done" =>
        /\ main_result.code = 0
        /\ EarlierSucceeded(Len(PipelineSteps) + 1)
  /\ url_checked => EarlierSucceeded(StepRank("load"))

\* all three steps selected: the list scrape exits with 0, the details scrape with
\* 2, the load is never started and main returns 2
C21_Witness ==
  /\ main_pc = "ended"
  /\ args = [skip_list |-> FALSE, skip_details |-> FALSE, load |-> TRUE]
  /\ environ
  /\ started = <<"list", "details">>
  /\ exits = <<[step |-> "list", code |-> 0], [step |-> "details", code |-> 2]>>
  /\ ~url_checked
  /\ main_result = [kind |-> "failed", code |-> 2]


\* a record whose row cannot be loaded: a NOT NULL column is missing, the depth is
\* negative, or a threat is a number
RowRaises(row) ==
  \/ row.source_record_id = None
  \/ row.common_name = None
  \/ (row.min_depth_m # None /\ row.min_depth_m[1] < 0)
  \/ \E k \in 1..Len(row.threats) : row.threats[k].kind = "num"

\* C22: the load is all-or-nothing.  While the transaction is open nothing of it is
\* visible in the database; it is committed only when the loop over all the records
\* has finished without an exception, and then the database is what the transaction
\* has built; when a record raises the transaction is rolled back, so the database
\* is what it was when the run started, and the exception leaves main; in both
\* cases the connection is closed.
C22_AllOrNothing ==
  /\ load_pc \in {"row", "replace", "except"} => (db = db_at_start /\ conn = "open")
  /\ load_result = "raised" =>
       /\ db = db_at_start
       /\ \E i \in 1..Len(rows) : RowRaises(rows[i])
  /\ load_result = "ok" =>
       /\ db = tx
       /\ row_i = Len(rows) + 1
       /\ species_count = Len(rows)
       /\ \A i \in 1..Len(rows) : ~RowRaises(rows[i])
  /\ load_pc = "ended" => (conn = "closed" /\ load_result \in {"ok", "raised"})
  /\ load_result = "none" <=> load_pc \in {"connect", "row", "replace", "except"}

\* the first record was loaded and changed a species and its links, the second one
\* raised at its threats: the run has ended with the database as it was
C22_Witness ==
  /\ load_pc = "ended"
  /\ load_result = "raised"
  /\ conn = "closed"
  /\ loads = 1
  /\ rows = <<Record(Some("s1"), Some("Blue whale"), Some(10), <<Str("fishing"), Str(" disease ")>>),
              Record(Some("s2"), Some("Fin whale"), Some(30), <<Str("disease"), Num, Str("fishing")>>)>>
  /\ row_i = 2
  /\ species_count = 2
  /\ seqs = [species |-> 4, threat |-> 5]
  /\ db = db_at_start
  /\ \E r \in db.species : r.source_record_id = "s1" /\ r.min_depth_m = <<5>>
  /\ db.species_threat = {<<1, 1>>, <<2, 1>>, <<2, 2>>}


\* the non-empty trimmed names of a list of threats
WantedNames(names) ==
  {str_strip(names[k].text) : k \in {j \in 1..Len(names) : names[j].kind = "str"}} \ {""}

\* the links of a species, and the names of the threats they lead to
LinksOf(tables, species_id) == {l \in tables.species_threat : l[1] = species_id}
LinkedNames(tables, species_id) ==
  {t.name : t \in {r \in tables.threat : <<species_id, r.id>> \in tables.species_threat}}

\* the last call of replace_species_threats has returned
Replaced ==
  /\ replaced.species_id # 0
  /\ load_pc \in {"row", "finally", "ended"}
  /\ load_result # "raised"

\* C23: after replace_species_threats(species_id, names) the species is linked to
\* exactly the non-empty trimmed names of the list, one link for each, whatever it
\* was linked to before; the returned count is the number of those names; the links
\* of the other species are the ones they had; and a second load of the same file
\* leaves the species, threats and links of the first load.
C23_ReplaceIsExact ==
  /\ Replaced =>
       LET sid == replaced.species_id
           wanted == WantedNames(replaced.names)
       IN  /\ LinkedNames(tx, sid) = wanted
           /\ Cardinality(LinksOf(tx, sid)) = Cardinality(wanted)
           /\ \A l \in LinksOf(tx, sid) : \E r \in tx.threat : r.id = l[2]
           /\ replaced.inserted = Cardinality(wanted)
           /\ tx.species_threat \ LinksOf(tx, sid)
                = replaced.before.species_threat \ LinksOf(replaced.before, sid)
  /\ (db_after_first # None /\ load_result = "ok") => db = db_after_first[1]

\* the second load of a file whose record names "fishing" twice (once with a form
\* feed after it), a blank name and null, for a species that was linked to
\* "pollution" before the first load: the
\* species has the two links, the other species has kept its own
C23_Witness ==
  /\ load_pc = "ended"
  /\ load_result = "ok"
  /\ loads = 2
  /\ rows = <<Record(Some("s1"), Some("Blue whale"), Some(20),
                     <<Str("fishing"), Str("fishing\f"), Str(" \t"), Null, Str("habitat loss")>>)>>
  /\ replaced.species_id = 1
  /\ replaced.inserted = 2
  /\ replaced.before = db
  /\ db_after_first = <<db>>
  /\ db.threat = {[id |-> 1, name |-> "pollution"], [id |-> 2, name |-> "fishing"],
                  [id |-> 5, name |-> "habitat loss"]}
  /\ db.species_threat = {<<1, 2>>, <<1, 5>>, <<2, 1>>, <<2, 2>>}

====
